---------------------------- MODULE Spec2Model ----------------------------
(***************************************************************************)
(* A model of the duplicate-detection and retention engine of              *)
(* video_analyzer: content signatures, grouping, quality ranking,          *)
(* comparison against the best member, the selection policies and the      *)
(* execution of a selection on the filesystem.                             *)
(*                                                                         *)
(* Strings that the program parses (file names, titles) are sequences of   *)
(* one-character strings, so that the parsing code is modelled by what it  *)
(* does.  Durations are in tenths of a second.                             *)
(***************************************************************************)
EXTENDS Integers, Sequences, FiniteSets, TLC

(***************************************************************************)
(* Characters and elementary string functions                              *)
(***************************************************************************)
UpperChars == <<"A","B","C","D","E","F","G","H","I","J","K","L","M",
                "N","O","P","Q","R","S","T","U","V","W","X","Y","Z">>

LowerChars == <<"a","b","c","d","e","f","g","h","i","j","k","l","m",
                "n","o","p","q","r","s","t","u","v","w","x","y","z">>

DigitChars == <<"0","1","2","3","4","5","6","7","8","9">>

Range(s) == {s[i] : i \in DOMAIN s}

Digits == Range(DigitChars)

Whitespace == {" "}

\* str.isalnum for one character
IsAlnum(c) == c \in Range(UpperChars) \cup Range(LowerChars) \cup Digits

\* str.lower for one character
LowerChar(c) ==
    IF c \in Range(UpperChars)
    THEN LowerChars[CHOOSE i \in DOMAIN UpperChars : UpperChars[i] = c]
    ELSE c

\* str.lower
Lower(s) == [i \in DOMAIN s |-> LowerChar(s[i])]

\* the value of a decimal digit
DigitVal(c) == (CHOOSE i \in DOMAIN DigitChars : DigitChars[i] = c) - 1

\* int() of a string of decimal digits
RECURSIVE ToInt(_)
ToInt(s) ==
    IF s = <<>> THEN 0
    ELSE 10 * ToInt(SubSeq(s, 1, Len(s) - 1)) + DigitVal(s[Len(s)])

\* the sub-string s[i..j] (1-based, inclusive), empty when j < i
Slice(s, i, j) == IF j < i THEN <<>> ELSE SubSeq(s, i, j)

\* number of consecutive characters of s from position i that are in class
RECURSIVE RunLen(_, _, _)
RunLen(s, i, class) ==
    IF i > Len(s) \/ s[i] \notin class THEN 0
    ELSE 1 + RunLen(s, i + 1, class)

\* lit is a sequence of character classes; TRUE when s matches it at position i
MatchesAt(s, i, lit) ==
    /\ i >= 1
    /\ i + Len(lit) - 1 <= Len(s)
    /\ \A k \in DOMAIN lit : s[i + k - 1] \in lit[k]

\* `needle in hay' for strings
Contains(hay, needle) ==
    \E i \in 1..(Len(hay) - Len(needle) + 1) :
        SubSeq(hay, i, i + Len(needle) - 1) = needle

\* str.strip for the space character
RECURSIVE Strip(_)
Strip(s) ==
    IF s = <<>> THEN s
    ELSE IF s[1] \in Whitespace THEN Strip(Tail(s))
    ELSE IF s[Len(s)] \in Whitespace THEN Strip(SubSeq(s, 1, Len(s) - 1))
    ELSE s

\* str.replace('.', ' ')
DotsToSpaces(s) == [i \in DOMAIN s |-> IF s[i] = "." THEN " " ELSE s[i]]

\* os.path.splitext(name)[0]: the name up to its last dot; a dot preceded
\* only by dots does not start an extension
SplitExtRoot(s) ==
    LET dots == {i \in DOMAIN s : s[i] = "."}
    IN  IF dots = {} THEN s
        ELSE LET last == CHOOSE i \in dots : \A j \in dots : j <= i
             IN  IF \E k \in 1..(last - 1) : s[k] # "."
                 THEN Slice(s, 1, last - 1)
                 ELSE s

\* str.split(): the maximal runs of non-whitespace characters
RECURSIVE SplitWords(_, _)
SplitWords(s, i) ==
    IF i > Len(s) THEN <<>>
    ELSE IF s[i] \in Whitespace THEN SplitWords(s, i + 1)
    ELSE LET n == CHOOSE n \in 1..(Len(s) - i + 1) :
                      /\ \A k \in i..(i + n - 1) : s[k] \notin Whitespace
                      /\ (i + n > Len(s) \/ s[i + n] \in Whitespace)
         IN  <<SubSeq(s, i, i + n - 1)>> \o SplitWords(s, i + n)

\* ' '.join(words)
RECURSIVE JoinWords(_)
JoinWords(ws) ==
    IF ws = <<>> THEN <<>>
    ELSE IF Len(ws) = 1 THEN ws[1]
    ELSE ws[1] \o <<" ">> \o JoinWords(Tail(ws))

\* ''.join(c for c in word if c.isalnum())
KeepAlnum(w) == SelectSeq(w, IsAlnum)

(***************************************************************************)
(* ContentInfo.extract_title_info                                          *)
(***************************************************************************)
TagSeparators == {".", " ", "-"}

\* the character class of one pattern letter under re.IGNORECASE
AnyCase(c) == {c} \cup {UpperChars[i] : i \in {j \in DOMAIN LowerChars : LowerChars[j] = c}}
                  \cup {LowerChars[i] : i \in {j \in DOMAIN UpperChars : UpperChars[j] = c}}

IgnoreCase(tag) == [i \in DOMAIN tag |-> AnyCase(tag[i])]

\* re.sub(pre* lit post*, ' ', s) from position i on: leftmost matches,
\* greedy runs of pre and post, each match replaced by one space
RECURSIVE SubRuns(_, _, _, _, _)
SubRuns(s, i, pre, lit, post) ==
    IF i > Len(s) THEN <<>>
    ELSE LET r == RunLen(s, i, pre)
         IN  IF MatchesAt(s, i + r, lit)
             THEN LET e == i + r + Len(lit)
                  IN  <<" ">> \o SubRuns(s, e + RunLen(s, e, post), pre, lit, post)
             ELSE <<s[i]>> \o SubRuns(s, i + 1, pre, lit, post)

\* length of the match of [.\s-]+[Ss](\d+)[Ee](\d+) at position k, 0 if none
TvMarkerAt(s, k) ==
    LET r  == RunLen(s, k, TagSeparators)
        p1 == k + r
        d1 == RunLen(s, p1 + 1, Digits)
        p2 == p1 + 1 + d1
        d2 == RunLen(s, p2 + 1, Digits)
    IN  IF /\ r >= 1
           /\ p1 <= Len(s) /\ s[p1] \in {"S", "s"}
           /\ d1 >= 1
           /\ p2 <= Len(s) /\ s[p2] \in {"E", "e"}
           /\ d2 >= 1
        THEN [at |-> k, season |-> ToInt(SubSeq(s, p1 + 1, p1 + d1)),
              episode |-> ToInt(SubSeq(s, p2 + 1, p2 + d2))]
        ELSE [at |-> 0, season |-> 0, episode |-> 0]

common_tags ==
    << <<"1","0","8","0","p">>, <<"7","2","0","p">>, <<"2","1","6","0","p">>,
       <<"4","K">>, <<"H","D","R">>, <<"H","E","V","C">>, <<"x","2","6","4">>,
       <<"x","2","6","5">>, <<"B","l","u","R","a","y">>,
       <<"W","E","B","-","D","L">>, <<"R","E","M","U","X">>,
       <<"A","M","Z","N">>, <<"N","F">>, <<"D","S","N","P">>,
       <<"H","U","L","U">> >>

RECURSIVE StripTags(_, _)
StripTags(s, n) ==
    IF n > Len(common_tags) THEN s
    ELSE StripTags(SubRuns(s, 1, TagSeparators, IgnoreCase(common_tags[n]),
                           TagSeparators), n + 1)

extract_title_info(filename) ==
    LET starts == {k \in 2..Len(filename) : TvMarkerAt(filename, k).at # 0}
    IN  IF starts # {}
        THEN LET k == CHOOSE k \in starts : \A j \in starts : k <= j
                 m == TvMarkerAt(filename, k)
             IN  [type |-> "tv_show",
                  title |-> Strip(DotsToSpaces(SubSeq(filename, 1, k - 1))),
                  season |-> m.season, episode |-> m.episode]
        ELSE LET tagless == StripTags(SplitExtRoot(filename), 1)
                 yearless == SubRuns(tagless, 1, {"(", "[", ".", " ", "-"},
                                     <<Digits, Digits, Digits, Digits>>,
                                     {")", "]", ".", " ", "-"})
             IN  [type |-> "movie", title |-> Strip(DotsToSpaces(yearless)),
                  season |-> 0, episode |-> 0]

(***************************************************************************)
(* VideoAnalyzer._clean_filename                                           *)
(***************************************************************************)
quality_indicators ==
    { <<"1","0","8","0","p">>, <<"7","2","0","p">>, <<"4","8","0","p">>,
      <<"2","1","6","0","p">>, <<"4","k">>, <<"u","h","d">>, <<"h","d">>,
      <<"8","k">>, <<"d","v","d","r","i","p">>, <<"b","d","r","i","p">>,
      <<"w","e","b","d","l">>, <<"w","e","b","-","d","l">>,
      <<"w","e","b","r","i","p">>, <<"b","l","u","r","a","y">>,
      <<"w","e","b">>, <<"h","d","t","v">>, <<"x","2","6","4">>,
      <<"x","2","6","5">>, <<"h","2","6","4">>, <<"h","2","6","5">>,
      <<"h","e","v","c">>, <<"x","v","i","d">>, <<"d","i","v","x">>,
      <<"r","e","m","u","x">>, <<"h","d","r">>, <<"d","o","l","b","y">>,
      <<"a","t","m","o","s">>, <<"t","r","u","e","h","d">>, <<"d","t","s">> }

\* re.sub(r'[\(\[\.]?\d{4}[\)\]\.]?', ' ', s) from position i on
RECURSIVE SubYear(_, _)
SubYear(s, i) ==
    LET four == <<Digits, Digits, Digits, Digits>>
        from == IF i <= Len(s) /\ s[i] \in {"(", "[", "."} /\ MatchesAt(s, i + 1, four)
                THEN i + 1
                ELSE IF MatchesAt(s, i, four) THEN i ELSE 0
    IN  IF i > Len(s) THEN <<>>
        ELSE IF from # 0
             THEN LET e == from + 4
                      n == IF e <= Len(s) /\ s[e] \in {")", "]", "."} THEN e + 1 ELSE e
                  IN  <<" ">> \o SubYear(s, n)
             ELSE <<s[i]>> \o SubYear(s, i + 1)

IsQualityWord(word) ==
    word \in quality_indicators \/ \E qi \in quality_indicators : Contains(word, qi)

RECURSIVE CleanWords(_)
CleanWords(ws) ==
    IF ws = <<>> THEN <<>>
    ELSE IF IsQualityWord(ws[1]) THEN CleanWords(Tail(ws))
    ELSE <<KeepAlnum(ws[1])>> \o CleanWords(Tail(ws))

_clean_filename(filename) ==
    LET base_name == SubYear(Lower(SplitExtRoot(filename)), 1)
    IN  JoinWords(CleanWords(SplitWords(base_name, 1)))

(***************************************************************************)
(* Bounds and the files of the model                                       *)
(***************************************************************************)
\* number of video files under the scanned directory
MaxFiles == 3

\* the default of --similarity and of VideoAnalyzer.__init__, in hundredths
DefaultSimilarity == 95

Str_Show480 == <<"S","h","o","w",".","S","0","1","E","0","1",".","4","8","0","p",".","a","v","i">>

Str_Show1080 == <<"S","h","o","w",".","S","0","1","E","0","1",".","1","0","8","0","p",".","m","k","v">>

Str_ShowE02 == <<"S","h","o","w",".","S","0","1","E","0","2",".","m","k","v">>

Str_movie == <<"m","o","v","i","e",".","m","p","4">>

Str_film == <<"f","i","l","m",".","m","k","v">>

Str_name1080 == <<"m","o","v","i","e",".","n","a","m","e",".","2","0","2","0",".","1","0","8","0","p",".","m","k","v">>

Str_name720 == <<"m","o","v","i","e",".","n","a","m","e",".","2","0","2","0",".","7","2","0","p",".","m","k","v">>

\* the directory trees a run may be pointed at, in os.walk order
Fixtures ==
    << << [dir |-> "a", name |-> Str_Show480], [dir |-> "b", name |-> Str_Show480],
          [dir |-> "b", name |-> Str_Show1080], [dir |-> "c", name |-> Str_ShowE02],
          [dir |-> "d", name |-> Str_ShowE02] >>,
       << [dir |-> "a", name |-> Str_movie], [dir |-> "b", name |-> Str_movie],
          [dir |-> "c", name |-> Str_movie], [dir |-> "c", name |-> Str_film],
          [dir |-> "d", name |-> Str_film] >>,
       << [dir |-> "a", name |-> Str_name1080], [dir |-> "b", name |-> Str_name720],
          [dir |-> "c", name |-> Str_name720], [dir |-> "d", name |-> Str_name1080],
          [dir |-> "e", name |-> Str_name720] >> >>

\* the trees the interactive session of the model is run on
SessionFixtures == {1, 2}

\* a path is 10 * (fixture number) + (position in the walk)
PathsOf(f) == {10 * f + i : i \in 1..MaxFiles}

AllPaths == UNION {PathsOf(f) : f \in DOMAIN Fixtures}

Entry(p) == Fixtures[p \div 10][p % 10]

\* os.path.basename
Basename(p) == Entry(p).name

\* what ffprobe can report for a file, with the size the file has on disk
\* (bitrate in Mbps, duration in tenths of a second)
Variants ==
    { [width |-> 1920, height |-> 1080, bitrate_value |-> 8, codec |-> "h264",
       fps |-> 24, duration_value |-> 72000, format |-> "matroska", size |-> 10],
      [width |-> 1920, height |-> 1080, bitrate_value |-> 8, codec |-> "hevc",
       fps |-> 24, duration_value |-> 72004, format |-> "mp4", size |-> 7],
      [width |-> 1920, height |-> 1080, bitrate_value |-> 7, codec |-> "h264",
       fps |-> 24, duration_value |-> 72005, format |-> "matroska", size |-> 7],
      [width |-> 1280, height |-> 720, bitrate_value |-> 3, codec |-> "h264",
       fps |-> 24, duration_value |-> 54000, format |-> "avi", size |-> 8] }

\* a file ffprobe cannot read: get_video_metadata returns None for it
Corrupt ==
    [width |-> 0, height |-> 0, bitrate_value |-> 0, codec |-> "unknown",
     fps |-> 0, duration_value |-> 0, format |-> "unknown", size |-> 8]

FileKinds == Variants \cup {Corrupt}

\* a 720p copy in another container, as long as the first of Variants
Remux ==
    [width |-> 1280, height |-> 720, bitrate_value |-> 3, codec |-> "h264",
     fps |-> 24, duration_value |-> 72003, format |-> "mp4", size |-> 6]

\* a video stream for which ffprobe reports no dimensions, no frame rate,
\* and 'N/A' as bit rate and duration
Headerless ==
    [width |-> 0, height |-> 0, bitrate_value |-> 0, codec |-> "h264",
     fps |-> 0, duration_value |-> 0, format |-> "matroska", size |-> 5]

\* the files of the grouping passes checked without the menu
ProbedKinds == Variants \cup {Remux, Headerless}

(***************************************************************************)
(* State                                                                   *)
(***************************************************************************)
VARIABLES
    media,                  \* path -> what the file under the scanned tree is
    disk,                   \* the paths that exist under the scanned tree
    outdir,                 \* output directory: source paths whose content it
                            \* holds, each under the basename of its source
    rename_replaces,        \* os.rename replaces an existing destination
                            \* (POSIX) or raises FileExistsError (Windows)
    dry_run,                \* VideoAnalyzer.dry_run
    output_dir,             \* VideoAnalyzer.output_dir is set
    _file_size_cache,       \* VideoAnalyzer._file_size_cache
    content_data,           \* VideoAnalyzer.content_data, in insertion order
    duplicates,             \* VideoAnalyzer.duplicates, in insertion order
    selected_for_deletion,  \* VideoAnalyzer.selected_for_deletion
    results,                \* what delete_selected_files returned
    pc,                     \* position of the main flow
    last_op,                \* the operation that wrote the selection last
    examined,               \* members the last smart selection looked at
    replaced,               \* the last automatic policy unselected a path
    submitted,              \* the selection delete_selected_files was run on
    min_similarity,         \* VideoAnalyzer.min_similarity, in hundredths
    bucket,                 \* the list _group_similar_files was called with
    result_groups,          \* what _group_similar_files returned
    _clean_filename_cache,  \* VideoAnalyzer._clean_filename, a pure function
                            \* memoized by lru_cache: its value for every
                            \* file name of the tree
    scored_file,            \* the record _calculate_quality_score was given
    quality_score,          \* what _calculate_quality_score returned
    size_path,              \* the path _get_file_size was last called with
    size_read,              \* what that call returned
    rewrites,               \* how often a file of the tree was rewritten
    caller,                 \* who runs the scan: main or scan_video_files
    probed,                 \* per file of the scanned tree, the metadata that
                            \* the probe and the content info of its name give
    video_files,            \* the list find_video_files returned
    futures,                \* the batches submitted to the executor
    workers,                \* the threads of the executor
    content_types,          \* VideoAnalyzer.content_types
    resolution_stats,       \* VideoAnalyzer.resolution_stats
    SHUTDOWN_REQUESTED,     \* the global flag of __main__
    exit_code               \* the exit status of the process, once it has one

vars == <<media, disk, outdir, rename_replaces, dry_run, output_dir,
          _file_size_cache, content_data, duplicates, selected_for_deletion,
          results, pc, last_op, examined, replaced, submitted,
          min_similarity, bucket, result_groups, _clean_filename_cache,
          scored_file, quality_score, size_path, size_read,
          rewrites, caller, probed, video_files, futures, workers, content_types,
          resolution_stats, SHUTDOWN_REQUESTED, exit_code>>

\* the variables of the calls checked on their own, outside the session
score_vars == <<scored_file, quality_score>>

size_vars == <<size_path, size_read, rewrites>>

scan_vars == <<caller, probed, video_files, futures, workers, content_types,
               resolution_stats, SHUTDOWN_REQUESTED, exit_code>>

pass_vars == <<score_vars, size_vars, scan_vars>>

(***************************************************************************)
(* VideoAnalyzer: signatures                                               *)
(***************************************************************************)
\* hashlib.md5(s.encode()).hexdigest()[:8] on the strings the files of the
\* model produce (the values are the real digests)
Md5Hex8(s) ==
    CASE s = <<>> -> "d41d8cd9"
      [] s = <<"s","h","o","w">> -> "a7dd12b1"
      [] s = <<"m","o","v","i","e">> -> "aed34b9f"
      [] s = <<"f","i","l","m">> -> "bdbd6db1"
      [] s = <<"m","o","v","i","e","n","a","m","e">> -> "c19e9703"
      [] s = <<"m","o","v","i","e","n","a","m","e"," ","p">> -> "d87ed3aa"

\* round() of a duration given in tenths: to the nearest integer, ties to even
RoundTenths(d) ==
    LET q == d \div 10
        r == d % 10
    IN  IF r < 5 THEN q
        ELSE IF r > 5 THEN q + 1
        ELSE IF q % 2 = 0 THEN q ELSE q + 1

\* _clean_filename called through its lru_cache
CachedClean(filename) == _clean_filename_cache[filename]

\* as _create_content_signature, but an episode's key also carries the
\* rounded duration, as a movie's does
SignatureWithDuration(metadata, file_path) ==
    IF metadata.type = "tv_show"
    THEN [kind |-> "tv", name_hash |-> Md5Hex8(Lower(metadata.title)),
          season |-> metadata.season, episode |-> metadata.episode,
          duration_key |-> RoundTenths(metadata.duration_value)]
    ELSE [kind |-> "movie",
          name_hash |-> Md5Hex8(CachedClean(Basename(file_path))),
          season |-> 0, episode |-> 0,
          duration_key |-> RoundTenths(metadata.duration_value)]

_create_content_signature(metadata, file_path) ==
    IF metadata.type = "tv_show"
    THEN [kind |-> "tv", name_hash |-> Md5Hex8(Lower(metadata.title)),
          season |-> metadata.season, episode |-> metadata.episode,
          duration_key |-> 0]
    ELSE [kind |-> "movie",
          name_hash |-> Md5Hex8(CachedClean(Basename(file_path))),
          season |-> 0, episode |-> 0,
          duration_key |-> RoundTenths(metadata.duration_value)]

(***************************************************************************)
(* VideoAnalyzer: sizes, scores, comparison                                *)
(***************************************************************************)
\* os.path.getsize: the size of an existing file
DiskSize(p) == media[p].size

\* _get_file_size: the cached size, else the size on disk (which is then
\* cached), else 0
_get_file_size(cache, file_path) ==
    IF file_path \in DOMAIN cache THEN cache[file_path]
    ELSE IF file_path \in disk THEN DiskSize(file_path)
    ELSE 0

\* the cache after _get_file_size was called for the paths ps
CacheAfter(cache, ps) ==
    [p \in DOMAIN cache \cup (ps \cap disk) |->
        IF p \in DOMAIN cache THEN cache[p] ELSE DiskSize(p)]

Min(a, b) == IF a <= b THEN a ELSE b

\* as _calculate_quality_score, but the bit rate points are not capped at 30
ScoreWithoutBitrateCap(file_info) ==
    LET resolution == IF file_info.height > 2160 THEN 40
                      ELSE IF file_info.height > 1080 THEN 30
                      ELSE IF file_info.height > 720 THEN 20
                      ELSE IF file_info.height > 480 THEN 10
                      ELSE 5
        bitrate == file_info.bitrate_value * 3
        \* the codec names of the model contain no other codec name
        codec == IF file_info.codec \in {"hevc", "h265", "av1"} THEN 20
                 ELSE IF file_info.codec \in {"h264", "avc"} THEN 15
                 ELSE 5
        fps == IF file_info.fps >= 60 THEN 10
               ELSE IF file_info.fps >= 30 THEN 7
               ELSE IF file_info.fps >= 24 THEN 5
               ELSE 2
    IN  resolution + bitrate + codec + fps

_calculate_quality_score(file_info) ==
    LET resolution == IF file_info.height > 2160 THEN 40
                      ELSE IF file_info.height > 1080 THEN 30
                      ELSE IF file_info.height > 720 THEN 20
                      ELSE IF file_info.height > 480 THEN 10
                      ELSE 5
        bitrate == Min(30, file_info.bitrate_value * 3)
        \* the codec names of the model contain no other codec name
        codec == IF file_info.codec \in {"hevc", "h265", "av1"} THEN 20
                 ELSE IF file_info.codec \in {"h264", "avc"} THEN 15
                 ELSE 5
        fps == IF file_info.fps >= 60 THEN 10
               ELSE IF file_info.fps >= 30 THEN 7
               ELSE IF file_info.fps >= 24 THEN 5
               ELSE 2
    IN  resolution + bitrate + codec + fps

\* int(a / b * 100); exact here, and equal to the floating-point result on
\* the values of the model
Percent(a, b) == (a * 100) \div b

NoComparison ==
    [resolution_percent |-> 0, bitrate_percent |-> 0, size_percent |-> 0,
     size_diff_value |-> 0, quality_percent |-> 0]

\* as _compare_to_highest_quality, but a comparison without both values
\* gives 0 percent
CompareZeroWhenMissing(cache, file_info, best_file) ==
    LET file_size == _get_file_size(cache, file_info.path)
        best_size == _get_file_size(cache, best_file.path)
        file_score == _calculate_quality_score(file_info)
        best_score == _calculate_quality_score(best_file)
    IN  [resolution_percent |->
            IF file_info.height > 0 /\ best_file.height > 0
            THEN Percent(file_info.height, best_file.height) ELSE 0,
         bitrate_percent |->
            IF file_info.bitrate_value > 0 /\ best_file.bitrate_value > 0
            THEN Percent(file_info.bitrate_value, best_file.bitrate_value) ELSE 0,
         size_percent |->
            IF file_size > 0 /\ best_size > 0
            THEN Percent(file_size, best_size) ELSE 0,
         size_diff_value |->
            IF file_size > 0 /\ best_size > 0 THEN best_size - file_size ELSE 0,
         quality_percent |->
            IF file_score > 0 /\ best_score > 0
            THEN Percent(file_score, best_score) ELSE 0]

_compare_to_highest_quality(cache, file_info, best_file) ==
    LET file_size == _get_file_size(cache, file_info.path)
        best_size == _get_file_size(cache, best_file.path)
        file_score == _calculate_quality_score(file_info)
        best_score == _calculate_quality_score(best_file)
    IN  [resolution_percent |->
            IF file_info.height > 0 /\ best_file.height > 0
            THEN Percent(file_info.height, best_file.height) ELSE 100,
         bitrate_percent |->
            IF file_info.bitrate_value > 0 /\ best_file.bitrate_value > 0
            THEN Percent(file_info.bitrate_value, best_file.bitrate_value) ELSE 100,
         size_percent |->
            IF file_size > 0 /\ best_size > 0
            THEN Percent(file_size, best_size) ELSE 100,
         size_diff_value |->
            IF file_size > 0 /\ best_size > 0 THEN best_size - file_size ELSE 0,
         quality_percent |->
            IF file_score > 0 /\ best_score > 0
            THEN Percent(file_score, best_score) ELSE 100]

(***************************************************************************)
(* VideoAnalyzer: scanning                                                 *)
(***************************************************************************)
\* VideoMetadata.get_video_metadata: TRUE when ffprobe yields metadata
Probes(p) == p \in disk /\ media[p] # Corrupt

\* process_single_file and add_file_metadata: the record stored for a file
NewRecord(p) ==
    LET info == extract_title_info(Basename(p))
        m == media[p]
    IN  [path |-> p, type |-> info.type, title |-> info.title,
         season |-> info.season, episode |-> info.episode,
         width |-> m.width, height |-> m.height,
         bitrate_value |-> m.bitrate_value, codec |-> m.codec, fps |-> m.fps,
         duration_value |-> m.duration_value, format |-> m.format,
         annotated |-> FALSE, is_highest_quality |-> FALSE,
         compared_to_best |-> NoComparison]

\* d[key].append(value) on an insertion-ordered defaultdict(list)
DictAppend(d, key, value) ==
    IF \E i \in DOMAIN d : d[i].key = key
    THEN [i \in DOMAIN d |->
            IF d[i].key = key
            THEN [d[i] EXCEPT !.files = Append(@, value)] ELSE d[i]]
    ELSE Append(d, [key |-> key, files |-> <<value>>])

\* d[key] = value on an insertion-ordered dict
DictSet(d, key, value) ==
    IF \E i \in DOMAIN d : d[i].key = key
    THEN [i \in DOMAIN d |->
            IF d[i].key = key THEN [d[i] EXCEPT !.files = value] ELSE d[i]]
    ELSE Append(d, [key |-> key, files |-> value])

\* as add_file_metadata, but the bucket of a file is chosen without the
\* duration part of its signature
AddFileByName(cd, p) ==
    LET rec == NewRecord(p)
    IN  DictAppend(cd, [_create_content_signature(rec, p)
                           EXCEPT !.duration_key = 0], rec)

add_file_metadata(cd, p) ==
    LET rec == NewRecord(p)
    IN  DictAppend(cd, _create_content_signature(rec, p), rec)

\* the files of the walk, in walk order
RECURSIVE WalkOrder(_)
WalkOrder(ps) ==
    IF ps = {} THEN <<>>
    ELSE LET p == CHOOSE p \in ps : \A q \in ps : p <= q
         IN  <<p>> \o WalkOrder(ps \ {p})

\* as AddAll, but the first file whose probe fails ends the batch
RECURSIVE AddAllUntilFailure(_, _)
AddAllUntilFailure(cd, files) ==
    IF files = <<>> \/ ~Probes(files[1]) THEN cd
    ELSE AddAllUntilFailure(add_file_metadata(cd, files[1]), Tail(files))

\* main: every probed file of the single batch is added, in walk order
RECURSIVE AddAll(_, _)
AddAll(cd, files) ==
    IF files = <<>> THEN cd
    ELSE AddAll(IF Probes(files[1]) THEN add_file_metadata(cd, files[1]) ELSE cd,
                Tail(files))

(***************************************************************************)
(* VideoAnalyzer.find_duplicates                                           *)
(***************************************************************************)
\* tuple comparison of two sort keys
RECURSIVE KeyLess(_, _)
KeyLess(a, b) ==
    IF a = <<>> \/ b = <<>> THEN a = <<>> /\ b # <<>>
    ELSE IF a[1] # b[1] THEN a[1] < b[1]
    ELSE KeyLess(Tail(a), Tail(b))

\* x put into an ordered list behind every element that does not sort after it
RECURSIVE InsertStable(_, _, _, _)
InsertStable(sorted, x, keyOf, reverse) ==
    IF sorted = <<>> THEN <<x>>
    ELSE IF (IF reverse THEN KeyLess(keyOf[sorted[1].path], keyOf[x.path])
                        ELSE KeyLess(keyOf[x.path], keyOf[sorted[1].path]))
         THEN <<x>> \o sorted
         ELSE <<sorted[1]>> \o InsertStable(Tail(sorted), x, keyOf, reverse)

\* sorted(files, key=..., reverse=...): stable in both directions
RECURSIVE SortedFrom(_, _, _, _)
SortedFrom(done, files, keyOf, reverse) ==
    IF files = <<>> THEN done
    ELSE SortedFrom(InsertStable(done, files[1], keyOf, reverse), Tail(files),
                    keyOf, reverse)

Sorted(files, keyOf, reverse) == SortedFrom(<<>>, files, keyOf, reverse)

PathsIn(files) == {files[i].path : i \in DOMAIN files}

\* the key find_duplicates sorts a bucket by
QualityKey(cache, files) ==
    [p \in PathsIn(files) |->
        LET x == CHOOSE x \in Range(files) : x.path = p
        IN  <<x.height * x.width, x.bitrate_value,
              0 - _calculate_quality_score(x), 0 - _get_file_size(cache, p)>>]

\* the loop that sets is_highest_quality and compared_to_best, the first
\* member first; `==' between two dicts compares all their entries
RECURSIVE Annotate(_, _, _, _)
Annotate(cache, files, i, best) ==
    IF i > Len(files) THEN <<>>
    ELSE LET first == IF i = 1 THEN files[1] ELSE best
             x == [files[i] EXCEPT
                     !.annotated = TRUE,
                     !.is_highest_quality = (files[i] = first),
                     !.compared_to_best =
                         _compare_to_highest_quality(cache, files[i], first)]
         IN  <<x>> \o Annotate(cache, files, i + 1, IF i = 1 THEN x ELSE best)

Pad2(n) ==
    IF n < 10 THEN <<"0", DigitChars[n + 1]>>
    ELSE IF n < 100 THEN <<DigitChars[(n \div 10) + 1], DigitChars[(n % 10) + 1]>>
    ELSE <<DigitChars[(n \div 100) + 1], DigitChars[((n \div 10) % 10) + 1],
           DigitChars[(n % 10) + 1]>>

GroupName(best) ==
    IF best.type = "tv_show"
    THEN best.title \o <<" ", "-", " ", "S">> \o Pad2(best.season)
                    \o <<"E">> \o Pad2(best.episode)
    ELSE best.title

\* as FindFrom, but a bucket whose records already carry the annotations of
\* an earlier pass is passed over
RECURSIVE FindFromUnannotated(_, _, _, _)
FindFromUnannotated(cache, cd, i, dups) ==
    IF i > Len(cd) THEN dups
    ELSE IF Len(cd[i].files) > 1 /\ ~cd[i].files[1].annotated
         THEN LET files_sorted ==
                      Sorted(cd[i].files, QualityKey(cache, cd[i].files), TRUE)
                  annotated == Annotate(cache, files_sorted, 1, files_sorted[1])
              IN  FindFromUnannotated(cache, cd, i + 1,
                           DictSet(dups, GroupName(files_sorted[1]), annotated))
         ELSE FindFromUnannotated(cache, cd, i + 1, dups)

\* the buckets of content_data from the i-th on; dups is self.duplicates so far
RECURSIVE FindFrom(_, _, _, _)
FindFrom(cache, cd, i, dups) ==
    IF i > Len(cd) THEN dups
    ELSE IF Len(cd[i].files) > 1
         THEN LET files_sorted ==
                      Sorted(cd[i].files, QualityKey(cache, cd[i].files), TRUE)
                  annotated == Annotate(cache, files_sorted, 1, files_sorted[1])
              IN  FindFrom(cache, cd, i + 1,
                           DictSet(dups, GroupName(files_sorted[1]), annotated))
         ELSE FindFrom(cache, cd, i + 1, dups)

find_duplicates(cache, cd) == FindFrom(cache, cd, 1, <<>>)

\* the records of content_data are the objects find_duplicates annotated
AnnotatedData(cache, cd) ==
    [i \in DOMAIN cd |->
        IF Len(cd[i].files) > 1
        THEN LET files_sorted ==
                     Sorted(cd[i].files, QualityKey(cache, cd[i].files), TRUE)
                 annotated == Annotate(cache, files_sorted, 1, files_sorted[1])
             IN  [cd[i] EXCEPT !.files =
                    [k \in DOMAIN cd[i].files |->
                        CHOOSE x \in Range(annotated) :
                            x.path = cd[i].files[k].path]]
        ELSE cd[i]]

(***************************************************************************)
(* VideoAnalyzer: similarity and clustering                                *)
(***************************************************************************)
\* set(base_name.split())
WordSet(base_name) == Range(SplitWords(base_name, 1))

Max(a, b) == IF a >= b THEN a ELSE b


\* _calculate_similarity_score as the fraction num / den.  The weights are in
\* twentieths (filename 6, duration 10, format 1, codec 1; the resolution
\* weight is never used); both parts are scaled by the sizes of the word
\* union and of the longer duration so that they stay whole numbers.
_calculate_similarity_score(file1, file2) ==
    LET base_name1 == CachedClean(Basename(file1.path))
        base_name2 == CachedClean(Basename(file2.path))
        words1 == WordSet(base_name1)
        words2 == WordSet(base_name2)
        compare_names == /\ base_name1 # <<>> /\ base_name2 # <<>>
                         /\ words1 # {} /\ words2 # {}
        overlap == IF compare_names THEN Cardinality(words1 \cap words2) ELSE 1
        union == IF compare_names THEN Cardinality(words1 \cup words2) ELSE 1
        duration1 == file1.duration_value
        duration2 == file2.duration_value
        timed == duration1 > 0 /\ duration2 > 0
        shorter == IF timed THEN Min(duration1, duration2) ELSE 0
        longer == IF timed THEN Max(duration1, duration2) ELSE 1
        same_format == IF file1.format = file2.format THEN 1 ELSE 0
        same_codec == IF file1.codec = file2.codec THEN 1 ELSE 0
        total_weight == 6 + (IF timed THEN 10 ELSE 0) + 1 + 1
    IN  [num |-> 6 * overlap * longer + 10 * shorter * union
                 + (same_format + same_codec) * union * longer,
         den |-> total_weight * union * longer]

\* _are_files_similar with the threshold threshold / 100
_are_files_similar(file1, file2, threshold) ==
    \/ file1.path = file2.path
    \/ /\ file1.type = "tv_show" /\ file2.type = "tv_show"
       /\ file1.title = file2.title
       /\ file1.season = file2.season
       /\ file1.episode = file2.episode
    \/ LET similarity_score == _calculate_similarity_score(file1, file2)
       IN  100 * similarity_score.num >= threshold * similarity_score.den

\* the numbers of S in rising order, as a list of small ints is iterated
RECURSIVE Ascending(_)
Ascending(S) ==
    IF S = {} THEN <<>>
    ELSE LET i == CHOOSE i \in S : \A j \in S : i <= j
         IN  <<i>> \o Ascending(S \ {i})

\* as GroupFrom, but a file also joins the cluster of a seed when it is
\* similar to a file that is similar to the seed
RECURSIVE GroupFromLinked(_, _, _)
GroupFromLinked(files, remaining, threshold) ==
    IF remaining = {} THEN <<>>
    ELSE LET i == CHOOSE i \in remaining : \A j \in remaining : i <= j
             rest == remaining \ {i}
             near == {j \in rest : _are_files_similar(files[i], files[j], threshold)}
             similar == near \cup
                 {j \in rest : \E k \in near :
                     _are_files_similar(files[k], files[j], threshold)}
             order == Ascending(similar)
             current_group == <<files[i]>> \o [n \in DOMAIN order |-> files[order[n]]]
         IN  <<current_group>> \o GroupFromLinked(files, rest \ similar, threshold)

\* the while loop of _group_similar_files over the indices still remaining
RECURSIVE GroupFrom(_, _, _)
GroupFrom(files, remaining, threshold) ==
    IF remaining = {} THEN <<>>
    ELSE LET i == CHOOSE i \in remaining : \A j \in remaining : i <= j
             rest == remaining \ {i}
             similar == {j \in rest :
                            _are_files_similar(files[i], files[j], threshold)}
             order == Ascending(similar)
             current_group == <<files[i]>> \o [n \in DOMAIN order |-> files[order[n]]]
         IN  <<current_group>> \o GroupFrom(files, rest \ similar, threshold)

_group_similar_files(files, threshold) ==
    GroupFrom(files, DOMAIN files, threshold)

(***************************************************************************)
(* Selection policies                                                      *)
(***************************************************************************)
\* as SizeKey, but the largest file sorts first
SizeKeyNegated(cache, files) ==
    [p \in PathsIn(files) |-> <<0 - _get_file_size(cache, p)>>]

\* the key auto_select_files(keep_highest_resolution=False) sorts a group by
SizeKey(cache, files) ==
    [p \in PathsIn(files) |-> <<_get_file_size(cache, p)>>]

\* the paths of files[from..]
PathsFrom(files, from) == {files[i].path : i \in {k \in DOMAIN files : k >= from}}

\* as AutoSelectGroup, but the first member is marked as well
AutoSelectGroupMarksAll(cache, files, keep_highest_resolution) ==
    IF Len(files) <= 1 THEN {}
    ELSE IF keep_highest_resolution THEN PathsFrom(files, 1)
    ELSE PathsFrom(Sorted(files, SizeKey(cache, files), FALSE), 2)

\* what one group adds to the selection
AutoSelectGroup(cache, files, keep_highest_resolution) ==
    IF Len(files) <= 1 THEN {}
    ELSE IF keep_highest_resolution THEN PathsFrom(files, 2)
    ELSE PathsFrom(Sorted(files, SizeKey(cache, files), FALSE), 2)

\* as auto_select_files, but the set is not cleared first
AutoSelectWithoutClear(selected, cache, dups, keep_highest_resolution) ==
    selected \cup UNION {AutoSelectGroup(cache, dups[g].files, keep_highest_resolution) :
                           g \in DOMAIN dups}

\* VideoAnalyzer.auto_select_files; selected is the set before the call
auto_select_files(selected, cache, dups, keep_highest_resolution) ==
    LET cleared == selected \ selected
    IN  cleared \cup UNION {AutoSelectGroup(cache, dups[g].files, keep_highest_resolution) :
                              g \in DOMAIN dups}

\* size_diff_value / best_size > 0.2; exact here, and equal to the
\* floating-point result on the values of the model
MuchSmaller(size_diff_value, best_size) == 5 * size_diff_value > best_size

\* as SmartGroup, but the loop goes on after the best file was marked
RECURSIVE SmartGroupWithoutBreak(_, _, _, _)
SmartGroupWithoutBreak(cache, files, j, acc) ==
    IF j > Len(files) THEN acc
    ELSE LET file == files[j]
             comparison == file.compared_to_best
             best_size == _get_file_size(cache, files[1].path)
             seen == [acc EXCEPT !.examined = @ \cup {file.path}]
             marked == [seen EXCEPT !.selected = @ \cup {file.path}]
         IN  IF /\ file.annotated
                /\ comparison.quality_percent > 90
                /\ comparison.size_diff_value > 0
             THEN IF best_size = 0
                  THEN [seen EXCEPT !.raised = TRUE]
                  ELSE IF MuchSmaller(comparison.size_diff_value, best_size)
                       THEN SmartGroupWithoutBreak(cache, files, j + 1,
                                IF comparison.quality_percent > 95
                                THEN [seen EXCEPT !.selected = @ \cup {files[1].path}]
                                ELSE seen)
                       ELSE SmartGroupWithoutBreak(cache, files, j + 1, marked)
             ELSE SmartGroupWithoutBreak(cache, files, j + 1, marked)

\* the loop of _smart_selection over files[j..] of one group; acc carries the
\* selection, the members looked at, and whether the division raised
RECURSIVE SmartGroup(_, _, _, _)
SmartGroup(cache, files, j, acc) ==
    IF j > Len(files) THEN acc
    ELSE LET file == files[j]
             comparison == file.compared_to_best
             best_size == _get_file_size(cache, files[1].path)
             seen == [acc EXCEPT !.examined = @ \cup {file.path}]
             marked == [seen EXCEPT !.selected = @ \cup {file.path}]
         IN  IF /\ file.annotated
                /\ comparison.quality_percent > 90
                /\ comparison.size_diff_value > 0
             THEN IF best_size = 0
                  THEN [seen EXCEPT !.raised = TRUE]
                  ELSE IF MuchSmaller(comparison.size_diff_value, best_size)
                       THEN IF comparison.quality_percent > 95
                            THEN [seen EXCEPT !.selected = @ \cup {files[1].path}]
                            ELSE SmartGroup(cache, files, j + 1, seen)
                       ELSE SmartGroup(cache, files, j + 1, marked)
             ELSE SmartGroup(cache, files, j + 1, marked)

RECURSIVE SmartFrom(_, _, _, _)
SmartFrom(cache, dups, g, acc) ==
    IF g > Len(dups) \/ acc.raised THEN acc
    ELSE SmartFrom(cache, dups, g + 1,
                   IF Len(dups[g].files) <= 1 THEN acc
                   ELSE SmartGroup(cache, dups[g].files, 2, acc))

\* as _smart_selection, but the set is not cleared first
SmartSelectionWithoutClear(selected, cache, dups) ==
    SmartFrom(cache, dups, 1,
              [selected |-> selected, examined |-> {}, raised |-> FALSE])

\* MainMenu._smart_selection; selected is the set before the call
_smart_selection(selected, cache, dups) ==
    SmartFrom(cache, dups, 1,
              [selected |-> selected \ selected, examined |-> {}, raised |-> FALSE])

\* MainMenu._toggle_all_except_highest
_toggle_all_except_highest(selected, files) ==
    IF files = <<>> THEN selected
    ELSE (selected \ {files[1].path}) \cup PathsFrom(files, 2)

\* MainMenu._select_files_to_delete with the numbers of the files to delete
_select_files_to_delete(selected, files, delete_indices) ==
    (selected \ PathsIn(files)) \cup
        {files[i].path : i \in delete_indices \cap DOMAIN files}

(***************************************************************************)
(* VideoAnalyzer.delete_selected_files                                     *)
(***************************************************************************)
EmptyResults ==
    [deleted |-> <<>>, failed |-> <<>>, skipped |-> <<>>, total_freed |-> 0]

\* the files in the output directory that carry the basename of p
SameNameIn(dir, p) == {q \in dir.files : Basename(q) = Basename(p)}

\* as DeleteOne, but the size of a file that could not be removed is counted
DeleteOneCountsFailed(st, cache, file_path, fault) ==
    LET size == _get_file_size(cache, file_path)
        made == IF output_dir THEN [st.out EXCEPT !.exists = TRUE] ELSE st.out
        error == IF file_path \notin st.disk THEN "ENOENT"
                 ELSE IF fault THEN "EIO"
                 ELSE IF output_dir /\ SameNameIn(made, file_path) # {}
                         /\ ~rename_replaces THEN "EEXIST"
                 ELSE "none"
    IN  IF error # "none"
        THEN [st EXCEPT !.out = made,
                        !.res.failed = Append(@, [path |-> file_path, error |-> error]),
                        !.res.total_freed = @ + size]
        ELSE [st EXCEPT
                !.disk = @ \ {file_path},
                !.out = IF output_dir
                        THEN [made EXCEPT !.files =
                                (@ \ SameNameIn(made, file_path)) \cup {file_path}]
                        ELSE made,
                !.res.deleted = Append(@, [path |-> file_path, size |-> size,
                                           moved |-> output_dir]),
                !.res.total_freed = @ + size]

\* one iteration of the deleting loop for file_path; st carries the results
\* and the filesystem; fault: the operating system refuses the operation
DeleteOne(st, cache, file_path, fault) ==
    LET size == _get_file_size(cache, file_path)
        made == IF output_dir THEN [st.out EXCEPT !.exists = TRUE] ELSE st.out
        error == IF file_path \notin st.disk THEN "ENOENT"
                 ELSE IF fault THEN "EIO"
                 ELSE IF output_dir /\ SameNameIn(made, file_path) # {}
                         /\ ~rename_replaces THEN "EEXIST"
                 ELSE "none"
    IN  IF error # "none"
        THEN [st EXCEPT !.out = made,
                        !.res.failed = Append(@, [path |-> file_path, error |-> error])]
        ELSE [st EXCEPT
                !.disk = @ \ {file_path},
                !.out = IF output_dir
                        THEN [made EXCEPT !.files =
                                (@ \ SameNameIn(made, file_path)) \cup {file_path}]
                        ELSE made,
                !.res.deleted = Append(@, [path |-> file_path, size |-> size,
                                           moved |-> output_dir]),
                !.res.total_freed = @ + size]

\* as SkipOne, but the file is removed
SkipOneRemoves(st, cache, file_path) ==
    LET size == _get_file_size(cache, file_path)
    IN  [st EXCEPT !.res.skipped = Append(@, [path |-> file_path, size |-> size]),
                   !.res.total_freed = @ + size,
                   !.disk = @ \ {file_path}]

\* the dry-run loop
SkipOne(st, cache, file_path) ==
    LET size == _get_file_size(cache, file_path)
    IN  [st EXCEPT !.res.skipped = Append(@, [path |-> file_path, size |-> size]),
                   !.res.total_freed = @ + size]

\* as DeleteFrom, but the first failure ends the loop
RECURSIVE DeleteFromUntilFailure(_, _, _, _)
DeleteFromUntilFailure(st, cache, order, faults) ==
    IF order = <<>> \/ st.res.failed # <<>> THEN st
    ELSE DeleteFromUntilFailure(
             IF dry_run THEN SkipOne(st, cache, order[1])
             ELSE DeleteOne(st, cache, order[1], order[1] \in faults),
             cache, Tail(order), faults)

RECURSIVE DeleteFrom(_, _, _, _)
DeleteFrom(st, cache, order, faults) ==
    IF order = <<>> THEN st
    ELSE DeleteFrom(IF dry_run THEN SkipOne(st, cache, order[1])
                    ELSE DeleteOne(st, cache, order[1], order[1] \in faults),
                    cache, Tail(order), faults)

\* as delete_selected_files, but dry_run is not looked at
DeleteDespiteDryRun(cache, order, faults) ==
    LET RECURSIVE DeleteRest(_, _)
        DeleteRest(st, rest) ==
            IF rest = <<>> THEN st
            ELSE DeleteRest(DeleteOne(st, cache, rest[1], rest[1] \in faults),
                            Tail(rest))
    IN  DeleteRest([res |-> EmptyResults, disk |-> disk, out |-> outdir], order)

\* order: the order in which the set is iterated; faults: the paths whose
\* removal or move the operating system refuses
delete_selected_files(cache, order, faults) ==
    DeleteFrom([res |-> EmptyResults, disk |-> disk, out |-> outdir],
               cache, order, faults)

\* MainMenu._update_duplicates_after_deletion
_update_duplicates_after_deletion(dups, deleted_files) ==
    LET deleted_paths == {deleted_files[i].path : i \in DOMAIN deleted_files}
        Kept(file) == file.path \notin deleted_paths
        updated == [g \in DOMAIN dups |->
                      [dups[g] EXCEPT !.files = SelectSeq(@, Kept)]]
        NonEmpty(group) == group.files # <<>>
    IN  SelectSeq(updated, NonEmpty)

(***************************************************************************)
(* The main flow and the menu                                              *)
(***************************************************************************)
\* the orders in which a set can be iterated
Orders(S) ==
    {o \in [1..Cardinality(S) -> S] : \A i, j \in DOMAIN o : o[i] = o[j] => i = j}

\* VideoAnalyzer.__init__ and what the model keeps beside it
\* _clean_filename of the file names of a tree
CleanedNames(f) ==
    [n \in {Basename(p) : p \in PathsOf(f)} |-> _clean_filename(n)]

\* no path
NoPath == 0

\* a record with no stream data
NoFile == [height |-> 0, bitrate_value |-> 0, codec |-> "unknown", fps |-> 0]

\* the process is running
NoExit == 0 - 1

\* the executor has no thread and no task, nothing was counted, no signal
\* has arrived
NoScan ==
    /\ caller = "main"
    /\ probed = <<>>
    /\ video_files = <<>>
    /\ futures = <<>>
    /\ workers = <<>>
    /\ content_types = [t \in {"tv_show", "movie"} |-> 0]
    /\ resolution_stats = <<>>
    /\ SHUTDOWN_REQUESTED = FALSE
    /\ exit_code = NoExit

\* none of the calls checked on their own has been made
NothingCalled ==
    /\ NoScan
    /\ scored_file = NoFile
    /\ quality_score = 0
    /\ size_path = NoPath
    /\ size_read = 0
    /\ rewrites = 0

Constructed ==
    /\ disk = DOMAIN media
    /\ outdir = [exists |-> FALSE, files |-> {}]
    /\ _file_size_cache = <<>>
    /\ content_data = <<>>
    /\ duplicates = <<>>
    /\ selected_for_deletion = {}
    /\ results = EmptyResults
    /\ pc = "start"
    /\ last_op = "none"
    /\ examined = {}
    /\ replaced = FALSE
    /\ submitted = {}
    /\ bucket = <<>>
    /\ result_groups = <<>>

Init ==
    /\ \E f \in SessionFixtures :
          /\ _clean_filename_cache = CleanedNames(f)
          /\ media \in [PathsOf(f) -> FileKinds]
    /\ dry_run \in BOOLEAN
    /\ output_dir \in BOOLEAN
    /\ rename_replaces \in BOOLEAN
    /\ (dry_run \/ ~output_dir) => rename_replaces
    /\ min_similarity = DefaultSimilarity
    /\ Constructed
    /\ NothingCalled

\* main, from find_video_files to the end of the scan: the sizes of the files
\* found are cached, every file is probed, the probed ones are added
Scan ==
    /\ pc = "start"
    /\ _file_size_cache' = CacheAfter(_file_size_cache, disk)
    /\ content_data' = AddAll(content_data, WalkOrder(disk))
    /\ pc' = IF disk = {} THEN "done" ELSE "scanned"
    /\ UNCHANGED <<media, disk, outdir, rename_replaces, dry_run, output_dir,
                   duplicates, selected_for_deletion, results, last_op,
                   examined, replaced, submitted,
                   min_similarity, bucket, result_groups,
                   _clean_filename_cache, pass_vars>>

\* main: the grouping pass, then the menu when groups were found and the run
\* is interactive
FindDuplicates ==
    /\ pc = "scanned"
    /\ duplicates' = find_duplicates(_file_size_cache, content_data)
    /\ content_data' = AnnotatedData(_file_size_cache, content_data)
    /\ _file_size_cache' =
           CacheAfter(_file_size_cache,
                      UNION {PathsIn(content_data[i].files) :
                               i \in {k \in DOMAIN content_data :
                                        Len(content_data[k].files) > 1}})
    /\ \E interactive \in BOOLEAN :
           pc' = IF duplicates' = <<>> \/ ~interactive THEN "done" ELSE "menu"
    /\ UNCHANGED <<media, disk, outdir, rename_replaces, dry_run, output_dir,
                   selected_for_deletion, results, last_op, examined,
                   replaced, submitted,
                   min_similarity, bucket, result_groups,
                   _clean_filename_cache, pass_vars>>

\* menu 2, choices 1 and 2
AutoSelectFiles(keep_highest_resolution) ==
    /\ pc = "menu"
    /\ duplicates # <<>>
    /\ selected_for_deletion' =
           auto_select_files(selected_for_deletion, _file_size_cache,
                             duplicates, keep_highest_resolution)
    /\ _file_size_cache' =
           IF keep_highest_resolution THEN _file_size_cache
           ELSE CacheAfter(_file_size_cache,
                           UNION {PathsIn(duplicates[g].files) :
                                    g \in {k \in DOMAIN duplicates :
                                             Len(duplicates[k].files) > 1}})
    /\ last_op' = IF keep_highest_resolution THEN "keep_best" ELSE "keep_smallest"
    /\ examined' = {}
    /\ replaced' = (selected_for_deletion \ selected_for_deletion' # {})
    /\ UNCHANGED <<media, disk, outdir, rename_replaces, dry_run, output_dir,
                   content_data, duplicates, results, pc, submitted,
                   min_similarity, bucket, result_groups,
                   _clean_filename_cache, pass_vars>>

\* menu 2, choice 3; a ZeroDivisionError ends the program
SmartSelection ==
    /\ pc = "menu"
    /\ duplicates # <<>>
    /\ LET r == _smart_selection(selected_for_deletion, _file_size_cache, duplicates)
       IN  /\ selected_for_deletion' = r.selected
           /\ examined' = r.examined
           /\ pc' = IF r.raised THEN "crashed" ELSE "menu"
    /\ last_op' = "smart"
    /\ replaced' = (selected_for_deletion \ selected_for_deletion' # {})
    /\ UNCHANGED <<media, disk, outdir, rename_replaces, dry_run, output_dir,
                   _file_size_cache, content_data, duplicates, results,
                   submitted,
                   min_similarity, bucket, result_groups,
                   _clean_filename_cache, pass_vars>>

\* menu 1, group details, choice 3 (and the answers 'a' and 'h')
ToggleAllExceptHighest(g) ==
    /\ pc = "menu"
    /\ selected_for_deletion' =
           _toggle_all_except_highest(selected_for_deletion, duplicates[g].files)
    /\ last_op' = "manual"
    /\ examined' = {}
    /\ replaced' = FALSE
    /\ UNCHANGED <<media, disk, outdir, rename_replaces, dry_run, output_dir,
                   _file_size_cache, content_data, duplicates, results, pc,
                   submitted,
                   min_similarity, bucket, result_groups,
                   _clean_filename_cache, pass_vars>>

\* menu 1, group details, choice 2
SelectFilesToDelete(g, delete_indices) ==
    /\ pc = "menu"
    /\ selected_for_deletion' =
           _select_files_to_delete(selected_for_deletion, duplicates[g].files,
                                   delete_indices)
    /\ last_op' = "manual"
    /\ examined' = {}
    /\ replaced' = FALSE
    /\ UNCHANGED <<media, disk, outdir, rename_replaces, dry_run, output_dir,
                   _file_size_cache, content_data, duplicates, results, pc,
                   submitted,
                   min_similarity, bucket, result_groups,
                   _clean_filename_cache, pass_vars>>

\* menu 5: the selection is kept or cleared
ReviewSelectedFiles(keep) ==
    /\ pc = "menu"
    /\ selected_for_deletion # {}
    /\ selected_for_deletion' = IF keep THEN selected_for_deletion ELSE {}
    /\ _file_size_cache' = CacheAfter(_file_size_cache, selected_for_deletion)
    /\ last_op' = IF keep THEN last_op ELSE "review"
    /\ examined' = IF keep THEN examined ELSE {}
    /\ replaced' = IF keep THEN replaced ELSE FALSE
    /\ UNCHANGED <<media, disk, outdir, rename_replaces, dry_run, output_dir,
                   content_data, duplicates, results, pc, submitted,
                   min_similarity, bucket, result_groups,
                   _clean_filename_cache, pass_vars>>

\* menu 6, the user declines at the prompt
CancelDeletion ==
    /\ pc = "menu"
    /\ selected_for_deletion # {}
    /\ _file_size_cache' = CacheAfter(_file_size_cache, selected_for_deletion)
    /\ UNCHANGED <<media, disk, outdir, rename_replaces, dry_run, output_dir,
                   content_data, duplicates, selected_for_deletion, results,
                   pc, last_op, examined, replaced, submitted,
                   min_similarity, bucket, result_groups,
                   _clean_filename_cache, pass_vars>>

\* menu 6, the user confirms: delete_selected_files, then the selection is
\* cleared and the groups are reconciled; the results are on the screen
ExecuteDeletion(order, faults) ==
    /\ pc = "menu"
    /\ selected_for_deletion # {}
    /\ LET st == delete_selected_files(_file_size_cache, order, faults)
       IN  /\ results' = st.res
           /\ disk' = st.disk
           /\ outdir' = st.out
           /\ duplicates' =
                  _update_duplicates_after_deletion(duplicates, st.res.deleted)
    /\ _file_size_cache' = CacheAfter(_file_size_cache, selected_for_deletion)
    /\ selected_for_deletion' = {}
    /\ pc' = "executed"
    /\ last_op' = "execute"
    /\ examined' = {}
    /\ replaced' = FALSE
    /\ submitted' = selected_for_deletion
    /\ UNCHANGED <<media, rename_replaces, dry_run, output_dir, content_data,
                   min_similarity, bucket, result_groups,
                   _clean_filename_cache, pass_vars>>

\* the user leaves the result screen
ReturnToMenu ==
    /\ pc = "executed"
    /\ results' = EmptyResults
    /\ submitted' = {}
    /\ pc' = "menu"
    /\ UNCHANGED <<media, disk, outdir, rename_replaces, dry_run, output_dir,
                   _file_size_cache, content_data, duplicates,
                   selected_for_deletion, last_op, examined, replaced,
                   min_similarity, bucket, result_groups,
                   _clean_filename_cache, pass_vars>>

Next ==
    \/ Scan
    \/ FindDuplicates
    \/ \E keep \in BOOLEAN : AutoSelectFiles(keep)
    \/ SmartSelection
    \/ \E g \in DOMAIN duplicates : ToggleAllExceptHighest(g)
    \/ \E g \in DOMAIN duplicates :
         \E d \in SUBSET DOMAIN duplicates[g].files : SelectFilesToDelete(g, d)
    \/ \E keep \in BOOLEAN : ReviewSelectedFiles(keep)
    \/ CancelDeletion
    \/ \E order \in Orders(selected_for_deletion) :
         \E faults \in SUBSET selected_for_deletion : ExecuteDeletion(order, faults)
    \/ ReturnToMenu

Spec == Init /\ [][Next]_vars

(***************************************************************************)
(* The grouping pass on its own                                            *)
(***************************************************************************)
\* values of --similarity, in hundredths: below the range, three inside it
\* (the default among them) and one above
SimilaritySettings == {0 - 5, 70, 90, DefaultSimilarity, 150}

\* a run whose files all probe, with any similarity setting; the retention
\* settings play no part in it
InitGrouping ==
    /\ \E f \in DOMAIN Fixtures :
          /\ _clean_filename_cache = CleanedNames(f)
          /\ media \in [PathsOf(f) -> ProbedKinds]
    /\ dry_run = FALSE
    /\ output_dir = FALSE
    /\ rename_replaces = TRUE
    /\ min_similarity \in SimilaritySettings
    /\ Constructed
    /\ NothingCalled

\* find_duplicates called once more on the same analyzer
FindDuplicatesAgain ==
    /\ pc \in {"menu", "done"}
    /\ disk # {}
    /\ duplicates' = find_duplicates(_file_size_cache, content_data)
    /\ content_data' = AnnotatedData(_file_size_cache, content_data)
    /\ _file_size_cache' =
           CacheAfter(_file_size_cache,
                      UNION {PathsIn(content_data[i].files) :
                               i \in {k \in DOMAIN content_data :
                                        Len(content_data[k].files) > 1}})
    /\ pc' = "regrouped"
    /\ UNCHANGED <<media, disk, outdir, rename_replaces, dry_run, output_dir,
                   selected_for_deletion, results, last_op, examined,
                   replaced, submitted, min_similarity, bucket, result_groups,
                   _clean_filename_cache, pass_vars>>

\* _group_similar_files called with the i-th bucket of content_data, as it
\* is or in the order find_duplicates gives it
GroupSimilarFiles(i, ordered) ==
    /\ pc = "scanned"
    /\ bucket' = IF ordered
                 THEN Sorted(content_data[i].files,
                             QualityKey(_file_size_cache, content_data[i].files),
                             TRUE)
                 ELSE content_data[i].files
    /\ result_groups' = _group_similar_files(bucket', min_similarity)
    /\ pc' = "clustered"
    /\ UNCHANGED <<media, disk, outdir, rename_replaces, dry_run, output_dir,
                   _file_size_cache, content_data, duplicates,
                   selected_for_deletion, results, last_op, examined,
                   replaced, submitted, min_similarity,
                   _clean_filename_cache, pass_vars>>

NextGrouping ==
    \/ Scan
    \/ FindDuplicates
    \/ FindDuplicatesAgain
    \/ \E i \in DOMAIN content_data :
         \E ordered \in BOOLEAN : GroupSimilarFiles(i, ordered)

SpecGrouping == InitGrouping /\ [][NextGrouping]_vars

(***************************************************************************)
(* _calculate_quality_score called on its own                              *)
(***************************************************************************)
\* heights, bit rates (Mbps), codec names and frame rates around every
\* threshold of the score, with the values get_video_metadata falls back to
ScoredHeights == {0, 480, 481, 720, 721, 1080, 1081, 2160, 2161, 4320}

ScoredBitrates == {0, 1, 9, 10, 11, 50}

ScoredCodecs == {"unknown", "mpeg4", "h264", "avc", "hevc", "h265", "av1"}

ScoredRates == {0, 23, 24, 29, 30, 59, 60, 120}

InitScore ==
    /\ scored_file \in [height : ScoredHeights, bitrate_value : ScoredBitrates,
                         codec : ScoredCodecs, fps : ScoredRates]
    /\ quality_score = 0
    /\ size_path = NoPath
    /\ size_read = 0
    /\ rewrites = 0
    /\ NoScan
    /\ media = <<>>
    /\ _clean_filename_cache = <<>>
    /\ dry_run = FALSE
    /\ output_dir = FALSE
    /\ rename_replaces = TRUE
    /\ min_similarity = DefaultSimilarity
    /\ Constructed

CalculateQualityScore ==
    /\ pc = "start"
    /\ quality_score' = _calculate_quality_score(scored_file)
    /\ pc' = "scored"
    /\ UNCHANGED <<media, disk, outdir, rename_replaces, dry_run, output_dir,
                   _file_size_cache, content_data, duplicates,
                   selected_for_deletion, results, last_op, examined,
                   replaced, submitted, min_similarity, bucket, result_groups,
                   _clean_filename_cache, scored_file, size_vars,
                   scan_vars>>

NextScore == CalculateQualityScore

SpecScore == InitScore /\ [][NextScore]_vars

(***************************************************************************)
(* Properties                                                              *)
(***************************************************************************)
\* the member lists of the reported groups
Groups == {duplicates[g].files : g \in DOMAIN duplicates}

SelectedOf(files) == PathsIn(files) \cap selected_for_deletion

CachedSize(p) == _get_file_size(_file_size_cache, p)

RECURSIVE SumOfSizes(_)
SumOfSizes(ps) ==
    IF ps = {} THEN 0
    ELSE LET p == CHOOSE p \in ps : TRUE
         IN  CachedSize(p) + SumOfSizes(ps \ {p})

\* how often path p occurs in a list of result entries
Occurrences(entries, p) ==
    Cardinality({i \in DOMAIN entries : entries[i].path = p})

\* the keep condition of smart selection for the member files[j] of a group
KeepCondition(files, j) ==
    /\ files[j].compared_to_best.quality_percent > 90
    /\ CachedSize(files[1].path) > 0
    /\ 5 * files[j].compared_to_best.size_diff_value > CachedSize(files[1].path)

\* files[j] is a member that made smart selection mark the best file
MarksBest(files, j) ==
    /\ j >= 2
    /\ files[j].path \in examined
    /\ KeepCondition(files, j)
    /\ files[j].compared_to_best.quality_percent > 95

\* C1: after auto_select_files(keep_highest_resolution=True), every reported
\* group of n >= 2 members has exactly n - 1 member paths in the selection
\* and its first member is not selected.
C1_KeepBestSelectsAllButFirst ==
    last_op = "keep_best" =>
        \A files \in Groups :
            Len(files) >= 2 =>
                /\ Cardinality(SelectedOf(files)) = Len(files) - 1
                /\ files[1].path \notin selected_for_deletion

C1_Witness ==
    /\ last_op = "keep_best"
    /\ \E files \in Groups :
           Len(files) = 3 /\ Cardinality(SelectedOf(files)) = 2

\* C2: every reported group has exactly one member with is_highest_quality,
\* and it is the first member, after grouping and after reconciliation.
C2_OneHighestQualityFirst ==
    \A files \in Groups :
        \A i \in DOMAIN files : files[i].is_highest_quality <=> (i = 1)

\* C3: an automatic policy leaves the selection equal to what it produces
\* from the empty set on the same groups, whatever was selected before (its
\* own earlier result included).
C3_PolicyRebuildsSelection ==
    /\ last_op = "keep_best" =>
           selected_for_deletion =
               auto_select_files({}, _file_size_cache, duplicates, TRUE)
    /\ last_op = "keep_smallest" =>
           selected_for_deletion =
               auto_select_files({}, _file_size_cache, duplicates, FALSE)
    /\ last_op = "smart" =>
           selected_for_deletion =
               _smart_selection({}, _file_size_cache, duplicates).selected

C3_Witness ==
    /\ last_op \in {"keep_best", "keep_smallest", "smart"}
    /\ replaced
    /\ selected_for_deletion # {}

\* C4: without dry_run every submitted path ends exactly once in `deleted' or
\* in `failed', whatever fails; a failed entry carries an error, a deleted
\* file is gone, and nothing is skipped.
C4_EveryPathDeletedOrFailed ==
    (pc = "executed" /\ ~dry_run) =>
        /\ \A p \in submitted :
               Occurrences(results.deleted, p) + Occurrences(results.failed, p) = 1
        /\ \A i \in DOMAIN results.failed :
               /\ results.failed[i].path \in submitted
               /\ results.failed[i].error \in {"ENOENT", "EIO", "EEXIST"}
               /\ results.failed[i].path \in disk
        /\ \A i \in DOMAIN results.deleted :
               /\ results.deleted[i].path \in submitted
               /\ results.deleted[i].path \notin disk
        /\ results.skipped = <<>>

C4_Witness ==
    /\ pc = "executed"
    /\ ~dry_run
    /\ Len(results.failed) >= 1
    /\ Len(results.deleted) >= 1
    /\ Len(results.failed) + Len(results.deleted) = 3

\* C5: with dry_run every submitted path is in `skipped', `deleted' and
\* `failed' are empty, total_freed is the sum of the cached sizes, and no file
\* or directory is created, moved or removed.
C5_DryRunOnlyReports ==
    (pc = "executed" /\ dry_run) =>
        /\ \A p \in submitted : Occurrences(results.skipped, p) = 1
        /\ Len(results.skipped) = Cardinality(submitted)
        /\ results.deleted = <<>>
        /\ results.failed = <<>>
        /\ results.total_freed = SumOfSizes(submitted)
        /\ disk = DOMAIN media
        /\ outdir = [exists |-> FALSE, files |-> {}]

C5_Witness ==
    /\ pc = "executed"
    /\ dry_run
    /\ output_dir
    /\ Cardinality(submitted) = 2
    /\ results.total_freed = 17

\* C6: when files are moved, an entry whose basename is already taken in the
\* output directory fails and the file moved there before stays: no two moved
\* entries share a basename and every moved file is in the output directory.
C6_TakenDestinationFails ==
    (pc = "executed" /\ ~dry_run /\ output_dir) =>
        /\ \A i, j \in DOMAIN results.deleted :
               i # j => Basename(results.deleted[i].path)
                            # Basename(results.deleted[j].path)
        /\ \A i \in DOMAIN results.deleted :
               results.deleted[i].path \in outdir.files

\* C7: after smart selection, in every reported group a non-best member that
\* satisfies the keep condition is not selected; the best member is selected
\* exactly when such a member with quality_percent > 95 was looked at, and no
\* member behind that one was looked at.
C7_SmartKeepsNearEqualSmaller ==
    last_op = "smart" =>
        \A files \in Groups :
            Len(files) >= 2 =>
                /\ \A j \in 2..Len(files) :
                       KeepCondition(files, j) =>
                           files[j].path \notin selected_for_deletion
                /\ files[1].path \in selected_for_deletion
                       <=> \E j \in 2..Len(files) : MarksBest(files, j)
                /\ \A j \in 2..Len(files) :
                       MarksBest(files, j) =>
                           \A k \in (j + 1)..Len(files) :
                               files[k].path \notin examined

C7_Witness ==
    /\ last_op = "smart"
    /\ \E files \in Groups :
           /\ Len(files) = 3
           /\ MarksBest(files, 2)
           /\ files[1].path \in selected_for_deletion
           /\ files[3].path \notin examined

\* C8: when smart selection has finished, every non-best member that does not
\* satisfy the keep condition is selected, also behind a member that made the
\* best file be marked.
C8_SmartMarksEveryOtherMember ==
    (last_op = "smart" /\ pc = "menu") =>
        \A files \in Groups :
            \A j \in 2..Len(files) :
                ~KeepCondition(files, j) =>
                    files[j].path \in selected_for_deletion

\* C9: after auto_select_files(keep_highest_resolution=False), every reported
\* group of n >= 2 members has exactly n - 1 member paths selected, and the
\* one left is no larger than any other member.
C9_KeepSmallestLeavesSmallest ==
    last_op = "keep_smallest" =>
        \A files \in Groups :
            Len(files) >= 2 =>
                /\ Cardinality(SelectedOf(files)) = Len(files) - 1
                /\ \A p \in PathsIn(files) \ selected_for_deletion :
                       \A q \in PathsIn(files) : CachedSize(p) <= CachedSize(q)

C9_Witness ==
    /\ last_op = "keep_smallest"
    /\ \E files \in Groups :
           /\ Len(files) = 3
           /\ files[1].path \in selected_for_deletion
           /\ \E j \in 2..3 : CachedSize(files[j].path) < CachedSize(files[1].path)

\* the records of content_data
Records == UNION {Range(content_data[i].files) : i \in DOMAIN content_data}

SameEpisode(a, b) ==
    /\ a.type = "tv_show" /\ b.type = "tv_show"
    /\ a.title = b.title /\ a.season = b.season /\ a.episode = b.episode

\* C10: once the grouping pass has run, and as long as no file has been
\* removed, two tv-episode records with the same title, season and episode
\* have the same signature and are in one reported group, whatever their
\* file names, durations, formats and codecs.
C10_SameEpisodeSameGroup ==
    (pc \in {"menu", "executed", "done"} /\ disk = DOMAIN media) =>
        \A a, b \in Records :
            (a.path # b.path /\ SameEpisode(a, b)) =>
                /\ _create_content_signature(a, a.path)
                       = _create_content_signature(b, b.path)
                /\ \E files \in Groups : {a.path, b.path} \subseteq PathsIn(files)

C10_Witness ==
    /\ pc = "menu"
    /\ disk = DOMAIN media
    /\ \E a, b \in Records :
           /\ SameEpisode(a, b)
           /\ Basename(a.path) # Basename(b.path)
           /\ RoundTenths(a.duration_value) # RoundTenths(b.duration_value)
           /\ a.format # b.format
           /\ a.codec # b.codec
           /\ \E files \in Groups : {a.path, b.path} \subseteq PathsIn(files)

\* the signature add_file_metadata filed a record under
SignatureOf(file_info) == _create_content_signature(file_info, file_info.path)

\* C11: the members of a reported group all have one content signature:
\* find_duplicates reports signature buckets and never merges two of them,
\* however similar their records are.
C11_GroupsShareOneSignature ==
    \A files \in Groups :
        \A i, j \in DOMAIN files : SignatureOf(files[i]) = SignatureOf(files[j])

\* a reported group and a record of another signature that passes the
\* similarity test against the group's first member at the configured
\* threshold, and is not in the group
C11_Witness ==
    /\ pc \in {"menu", "done", "regrouped"}
    /\ min_similarity \in 0..100
    /\ \E files \in Groups :
         \E b \in Records :
            /\ SignatureOf(b) # SignatureOf(files[1])
            /\ _are_files_similar(files[1], b, min_similarity)
            /\ b.path \notin PathsIn(files)

\* C12: in every state reached through grouping, selection, retention and
\* reconciliation, every group of the duplicates mapping has at least two
\* members.
C12_GroupsHaveTwoMembers ==
    \A files \in Groups : Len(files) >= 2

\* the labels of the reported groups in their order, each with the paths of
\* its members in their order
Listing(dups) ==
    [g \in DOMAIN dups |->
        [key |-> dups[g].key,
         paths |-> [k \in DOMAIN dups[g].files |-> dups[g].files[k].path]]]

\* C13: a second run of find_duplicates on the content_data the first run
\* left (records annotated in place, nothing added or removed) reports the
\* same labels, the same members in each group and the same member order.
C13_SecondPassSameGroups ==
    [][FindDuplicatesAgain => Listing(duplicates') = Listing(duplicates)]_vars

\* the second pass has run over annotated records and reports a group in
\* which the sort moved a later file of the walk to the front
C13_Witness ==
    /\ pc = "regrouped"
    /\ \E files \in Groups :
          /\ \A k \in DOMAIN files : files[k].annotated
          /\ \E k \in DOMAIN files : files[k].path < files[1].path

\* C14: every member of every group find_duplicates reports passes the
\* similarity test against the group's first member at the configured
\* min_similarity (same path, or same episode of the same show, or a
\* similarity score of at least min_similarity).
C14_MembersSimilarToFirst ==
    pc \in {"menu", "done"} =>
        \A files \in Groups :
            \A k \in DOMAIN files :
                _are_files_similar(files[1], files[k], min_similarity)

\* C15: every member of every reported group carries compared_to_best with
\* the four percentages defined and not negative; a percentage is 100 when
\* the member's or the best's height, bitrate, size or score is 0.
C15_PercentsDefinedAndGuarded ==
    \A files \in Groups :
        \A k \in DOMAIN files :
            LET file_info == files[k]
                best_file == files[1]
                comparison == file_info.compared_to_best
            IN  /\ file_info.annotated
                /\ comparison.resolution_percent \in Nat
                /\ comparison.bitrate_percent \in Nat
                /\ comparison.size_percent \in Nat
                /\ comparison.quality_percent \in Nat
                /\ (file_info.height = 0 \/ best_file.height = 0)
                       => comparison.resolution_percent = 100
                /\ (file_info.bitrate_value = 0 \/ best_file.bitrate_value = 0)
                       => comparison.bitrate_percent = 100
                /\ (CachedSize(file_info.path) = 0 \/ CachedSize(best_file.path) = 0)
                       => comparison.size_percent = 100
                /\ (_calculate_quality_score(file_info) = 0
                       \/ _calculate_quality_score(best_file) = 0)
                       => comparison.quality_percent = 100

\* a group whose best member has dimensions and a bit rate and which holds a
\* member for which ffprobe reported neither
C15_Witness ==
    \E files \in Groups :
        \E k \in DOMAIN files :
            /\ files[1].height > 0 /\ files[1].bitrate_value > 0
            /\ files[k].height = 0 /\ files[k].bitrate_value = 0
            /\ files[k].compared_to_best.resolution_percent = 100
            /\ files[k].compared_to_best.bitrate_percent = 100

\* C16: movie.name.2020.1080p.mkv and movie.name.2020.720p.mkv with
\* durations that round to the same second get the same cleaned name and
\* the same signature, and are reported in one group whose first member is
\* the one of the higher resolution.
C16_ResolutionTagsShareOneGroup ==
    pc \in {"menu", "done", "regrouped"} =>
        \A a, b \in Records :
            (/\ Basename(a.path) = Str_name1080
             /\ Basename(b.path) = Str_name720
             /\ RoundTenths(a.duration_value) = RoundTenths(b.duration_value))
            => /\ CachedClean(Basename(a.path)) = CachedClean(Basename(b.path))
               /\ SignatureOf(a) = SignatureOf(b)
               /\ \E files \in Groups :
                     /\ {a.path, b.path} \subseteq PathsIn(files)
                     /\ \A k \in DOMAIN files :
                            files[1].height * files[1].width
                                >= files[k].height * files[k].width

\* C17: a min_similarity outside 0.0 .. 1.0 is rejected when the run is
\* configured: with such a value no file is ever scanned.
C17_OutOfRangeRejected ==
    min_similarity \notin 0..100 =>
        /\ pc = "start"
        /\ content_data = <<>>
        /\ duplicates = <<>>

\* the paths of the records of content_data
RecordPaths == {r.path : r \in Records}

\* C18: a file whose probe fails is never in content_data nor in a reported
\* group, and the other files of the pass are processed all the same: each
\* of them is in content_data once the scan is over, and any two of them
\* with one signature are reported in one group by the grouping pass (as
\* long as no file has been removed).
C18_FailedProbesLeftOut ==
    /\ \A p \in DOMAIN media :
          media[p] = Corrupt =>
              /\ p \notin RecordPaths
              /\ \A files \in Groups : p \notin PathsIn(files)
    /\ pc # "start" =>
          \A p \in DOMAIN media : media[p] # Corrupt => p \in RecordPaths
    /\ (pc \in {"menu", "executed", "done"} /\ disk = DOMAIN media) =>
          \A a, b \in Records :
              (a.path # b.path /\ SignatureOf(a) = SignatureOf(b)) =>
                  \E files \in Groups : {a.path, b.path} \subseteq PathsIn(files)

\* the probe of a file failed and the files that follow it in the walk were
\* processed and reported as a group
C18_Witness ==
    /\ pc \in {"menu", "done"}
    /\ \E p \in DOMAIN media :
          /\ media[p] = Corrupt
          /\ \E files \in Groups :
                /\ Len(files) >= 2
                /\ \A k \in DOMAIN files : p < files[k].path

\* the order of the members as the claim states it: pixel count, bit rate
\* and quality score, the larger first, then the size, the smaller first
RankKey(file_info) ==
    <<file_info.height * file_info.width, file_info.bitrate_value,
      _calculate_quality_score(file_info), 0 - CachedSize(file_info.path)>>

\* C19: in every reported group the members are in the order of (pixel
\* count, bit rate, quality score) descending and then file size ascending:
\* no member is ranked below a member that comes after it.
C19_OrderedByQualityThenSize ==
    \A files \in Groups :
        \A i, j \in DOMAIN files :
            i < j => ~KeyLess(RankKey(files[i]), RankKey(files[j]))

\* the index in the bucket of a file of the bucket (paths are unique)
IndexIn(files, file_info) ==
    CHOOSE i \in DOMAIN files : files[i].path = file_info.path

\* the indices of the bucket held by the clusters before the g-th
ClaimedBefore(files, groups, g) ==
    UNION {{IndexIn(files, groups[h][k]) : k \in DOMAIN groups[h]} :
             h \in {n \in DOMAIN groups : n < g}}

\* C20: what _group_similar_files returns for a bucket is a partition of the
\* bucket; the seed (first member) of each cluster is the lowest-index file
\* that no earlier cluster holds, and a file that no earlier cluster holds
\* and that is not the seed is in the cluster exactly when it passes the
\* similarity test against the seed, whatever its similarity to the other
\* members; the members follow the seed in bucket order.
C20_ClustersAroundSeeds ==
    pc = "clustered" =>
        /\ \A i \in DOMAIN bucket :
              Cardinality({pos \in (DOMAIN result_groups) \X (1..Len(bucket)) :
                             /\ pos[2] <= Len(result_groups[pos[1]])
                             /\ result_groups[pos[1]][pos[2]] = bucket[i]}) = 1
        /\ \A g \in DOMAIN result_groups :
              LET cluster == result_groups[g]
                  unclaimed == DOMAIN bucket \ ClaimedBefore(bucket, result_groups, g)
              IN  /\ cluster # <<>>
                  /\ Range(cluster) \subseteq Range(bucket)
                  /\ unclaimed # {}
                  /\ \A j \in unclaimed : IndexIn(bucket, cluster[1]) <= j
                  /\ \A j \in unclaimed \ {IndexIn(bucket, cluster[1])} :
                        bucket[j] \in Range(cluster)
                            <=> _are_files_similar(cluster[1], bucket[j], min_similarity)
                  /\ \A k \in DOMAIN cluster :
                        k > 1 => IndexIn(bucket, cluster[k - 1])
                                    < IndexIn(bucket, cluster[k])

\* a cluster with a member besides its seed, and a file left out of it that
\* fails the test against the seed but passes it against that member
C20_Witness ==
    /\ pc = "clustered"
    /\ min_similarity \in 0..100
    /\ \E g \in DOMAIN result_groups :
          \E k \in DOMAIN result_groups[g] :
             \E z \in Range(bucket) \ Range(result_groups[g]) :
                /\ k > 1
                /\ ~_are_files_similar(result_groups[g][1], z, min_similarity)
                /\ _are_files_similar(result_groups[g][k], z, min_similarity)

(***************************************************************************)
(* The scan with its worker threads: main, and scan_video_files            *)
(***************************************************************************)
\* os.cpu_count()
cpu_count == 2

\* the tree of the scan: the five files of the first tree, four of the
\* second and two files of one name of the third; the last of them is the
\* second batch
ScanPaths == {11, 12, 13, 14, 15, 21, 22, 23, 24, 31, 34}

\* the file of the tree that ffprobe may fail on
Fragile == {15}

\* what ffprobe reports for the other files
ScannedKind == CHOOSE k \in Variants : k.codec = "h264" /\ k.bitrate_value = 8

ScanNames == [n \in {Basename(p) : p \in ScanPaths} |-> _clean_filename(n)]

VideoAnalyzer_classify_resolution(height) ==
    IF height <= 0 THEN "Unknown"
    ELSE IF height <= 480 THEN "SD"
    ELSE IF height <= 720 THEN "HD"
    ELSE IF height <= 1080 THEN "Full HD"
    ELSE IF height <= 2160 THEN "4K"
    ELSE "8K+"

\* the size of the thread pool: main's max_workers, the analyzer's num_threads
max_workers ==
    IF caller = "main" THEN Min(cpu_count, 8) ELSE Max(4, cpu_count * 2)

batch_size(total_files) ==
    IF caller = "main" THEN Max(10, total_files \div (max_workers * 2))
    ELSE Min(100, Max(10, total_files \div max_workers))

\* files[i:i + batch_size] for i in range(0, len(files), batch_size)
Batches(files) ==
    LET size == batch_size(Len(files))
        count == (Len(files) + size - 1) \div size
    IN  [b \in 1..count |->
            SubSeq(files, (b - 1) * size + 1, Min(b * size, Len(files)))]

\* d[key] of a defaultdict(int), and the dict after d[key] = value
Count(d, key) == IF key \in DOMAIN d THEN d[key] ELSE 0

Put(d, key, value) ==
    [k \in DOMAIN d \cup {key} |-> IF k = key THEN value ELSE d[k]]

\* as GetOrCreate, but a bucket that exists is replaced by an empty one
CreateAnew(d, key) ==
    IF \E i \in DOMAIN d : d[i].key = key
    THEN [i \in DOMAIN d |->
            IF d[i].key = key THEN [d[i] EXCEPT !.files = <<>>] ELSE d[i]]
    ELSE Append(d, [key |-> key, files |-> <<>>])

\* d[key] on an insertion-ordered defaultdict(list): the dict it leaves
GetOrCreate(d, key) ==
    IF \E i \in DOMAIN d : d[i].key = key THEN d
    ELSE Append(d, [key |-> key, files |-> <<>>])

\* add_file_metadata for a file whose metadata is at hand
AddRecord(cd, metadata) ==
    DictAppend(cd, _create_content_signature(metadata, metadata.path), metadata)

\* main: add_file_metadata for every file of the results of a batch
RECURSIVE AddRecords(_, _)
AddRecords(cd, files) ==
    IF files = <<>> THEN cd
    ELSE AddRecords(AddRecord(cd, probed[files[1]]), Tail(files))

\* a thread of the executor that waits for work
IdleWorker ==
    [pc |-> "idle", future |-> 0, i |-> 0, results |-> <<>>,
     metadata |-> NoFile, read |-> 0]

\* the variables the scan leaves alone
session_rest ==
    <<media, disk, outdir, rename_replaces, dry_run, output_dir, duplicates,
      selected_for_deletion, results, last_op, examined, replaced, submitted,
      min_similarity, bucket, result_groups, _clean_filename_cache,
      score_vars, size_vars>>

InitScan ==
    /\ _clean_filename_cache = ScanNames
    /\ media \in {m \in [ScanPaths -> {ScannedKind, Corrupt}] :
                    \A p \in ScanPaths \ Fragile : m[p] = ScannedKind}
    /\ dry_run = FALSE
    /\ output_dir = FALSE
    /\ rename_replaces = TRUE
    /\ min_similarity = DefaultSimilarity
    /\ Constructed
    /\ scored_file = NoFile
    /\ quality_score = 0
    /\ size_path = NoPath
    /\ size_read = 0
    /\ rewrites = 0
    /\ caller \in {"main", "scan_video_files"}
    /\ probed = [p \in ScanPaths |-> IF Probes(p) THEN NewRecord(p) ELSE NoFile]
    /\ video_files = <<>>
    /\ futures = <<>>
    /\ workers = <<>>
    /\ content_types = [t \in {"tv_show", "movie"} |-> 0]
    /\ resolution_stats = <<>>
    /\ SHUTDOWN_REQUESTED = FALSE
    /\ exit_code = NoExit

\* find_video_files; main returns 0 when it finds nothing
FindVideoFiles ==
    /\ pc = "start"
    /\ video_files' = WalkOrder(disk)
    /\ _file_size_cache' = CacheAfter(_file_size_cache, disk)
    /\ pc' = IF disk = {} THEN "done" ELSE "submitting"
    /\ exit_code' = IF disk = {} /\ caller = "main" THEN 0 ELSE exit_code
    /\ UNCHANGED <<session_rest, content_data, caller, probed, futures, workers,
                   content_types, resolution_stats, SHUTDOWN_REQUESTED>>

\* the head of the submitting loop: it ends when no batch is left, and in
\* main when the flag is set
NextBatch ==
    /\ pc = "submitting"
    /\ pc' = IF \/ Len(futures) = Len(Batches(video_files))
                \/ caller = "main" /\ SHUTDOWN_REQUESTED
             THEN "collecting" ELSE "submit"
    /\ UNCHANGED <<session_rest, _file_size_cache, content_data, scan_vars>>

\* executor.submit for the next batch; the pool starts a thread when none
\* is idle and it has fewer than max_workers
SubmitBatch ==
    /\ pc = "submit"
    /\ futures' = Append(futures,
                         [batch |-> Batches(video_files)[Len(futures) + 1],
                          state |-> "pending", results |-> <<>>,
                          yielded |-> FALSE])
    /\ workers' = IF \/ \E w \in DOMAIN workers : workers[w].pc = "idle"
                     \/ Len(workers) >= max_workers
                  THEN workers
                  ELSE Append(workers, IdleWorker)
    /\ pc' = "submitting"
    /\ UNCHANGED <<session_rest, _file_size_cache, content_data, caller, probed,
                   video_files, content_types, resolution_stats,
                   SHUTDOWN_REQUESTED, exit_code>>

\* a thread of the pool takes the oldest task of the queue
StartBatch(w) ==
    /\ workers[w].pc = "idle"
    /\ \E f \in DOMAIN futures :
          /\ futures[f].state = "pending"
          /\ \A g \in 1..(f - 1) : futures[g].state # "pending"
          /\ futures' = [futures EXCEPT ![f].state = "running"]
          /\ workers' = [workers EXCEPT
                           ![w].pc = IF caller = "main" THEN "check" ELSE "batch",
                           ![w].future = f,
                           ![w].i = 1,
                           ![w].results = <<>>]
    /\ UNCHANGED <<session_rest, _file_size_cache, content_data, pc, caller, probed,
                   video_files, content_types, resolution_stats,
                   SHUTDOWN_REQUESTED, exit_code>>

\* the task of the worker ends: its future holds what it returns
Finished(w) ==
    /\ futures' = [futures EXCEPT ![workers[w].future].state = "finished",
                                  ![workers[w].future].results =
                                        IF caller = "main"
                                        THEN workers[w].results ELSE <<>>]
    /\ workers' = [workers EXCEPT ![w] = IdleWorker]

\* process_video_batch leaves its loop: no file is left, or the flag is set
BatchEnds(w) ==
    \/ workers[w].i > Len(futures[workers[w].future].batch)
    \/ SHUTDOWN_REQUESTED

\* process_video_batch: the head of the loop over the files of the batch
NextFile(w) ==
    /\ workers[w].pc = "check"
    /\ IF BatchEnds(w)
       THEN Finished(w)
       ELSE /\ workers' = [workers EXCEPT ![w].pc = "probe"]
            /\ UNCHANGED futures
    /\ UNCHANGED <<session_rest, _file_size_cache, content_data, pc, caller, probed,
                   video_files, content_types, resolution_stats,
                   SHUTDOWN_REQUESTED, exit_code>>

\* process_single_file up to self.content_types[type] += 1: the probe, the
\* content info, and the load of the item
ProcessSingleFile(w) ==
    /\ workers[w].pc = "probe"
    /\ LET file == futures[workers[w].future].batch[workers[w].i]
           metadata == probed[file]
       IN  workers' =
             IF Probes(file)
             THEN [workers EXCEPT ![w].metadata = metadata,
                                  ![w].read = content_types[metadata.type],
                                  ![w].pc = "write_type"]
             ELSE [workers EXCEPT ![w].i = @ + 1, ![w].pc = "check"]
    /\ UNCHANGED <<session_rest, _file_size_cache, content_data, pc, caller, probed,
                   video_files, futures, content_types, resolution_stats,
                   SHUTDOWN_REQUESTED, exit_code>>

\* self.content_types[type] += 1: the sum is stored
WriteContentType(w) ==
    /\ workers[w].pc = "write_type"
    /\ content_types' = [content_types EXCEPT
                           ![workers[w].metadata.type] = workers[w].read + 1]
    /\ workers' = [workers EXCEPT ![w].pc = "read_resolution"]
    /\ UNCHANGED <<session_rest, _file_size_cache, content_data, pc, caller, probed,
                   video_files, futures, resolution_stats,
                   SHUTDOWN_REQUESTED, exit_code>>

\* self.resolution_stats[category] += 1: the item is loaded (and made) ...
ReadResolutionStats(w) ==
    /\ workers[w].pc = "read_resolution"
    /\ LET category == VideoAnalyzer_classify_resolution(workers[w].metadata.height)
       IN  /\ resolution_stats' =
                Put(resolution_stats, category, Count(resolution_stats, category))
           /\ workers' = [workers EXCEPT
                            ![w].read = Count(resolution_stats, category),
                            ![w].pc = "write_resolution"]
    /\ UNCHANGED <<session_rest, _file_size_cache, content_data, pc, caller, probed,
                   video_files, futures, content_types,
                   SHUTDOWN_REQUESTED, exit_code>>

\* ... and the sum is stored; process_single_file then returns the metadata
\* and process_video_batch appends the file to its results, while
\* _process_batch goes on to add_file_metadata
WriteResolutionStats(w) ==
    /\ workers[w].pc = "write_resolution"
    /\ LET category == VideoAnalyzer_classify_resolution(workers[w].metadata.height)
       IN  resolution_stats' = Put(resolution_stats, category, workers[w].read + 1)
    /\ workers' = IF caller = "main"
                  THEN [workers EXCEPT
                          ![w].results = Append(@, workers[w].metadata.path),
                          ![w].metadata = NoFile,
                          ![w].i = @ + 1,
                          ![w].pc = "check"]
                  ELSE [workers EXCEPT ![w].pc = "bucket"]
    /\ UNCHANGED <<session_rest, _file_size_cache, content_data, pc, caller, probed,
                   video_files, futures, content_types,
                   SHUTDOWN_REQUESTED, exit_code>>

\* _process_batch: batch_process_files probes the files of the batch and
\* returns those with metadata
BatchProcessFiles(w) ==
    /\ workers[w].pc = "batch"
    /\ workers' = [workers EXCEPT
                     ![w].results = SelectSeq(futures[workers[w].future].batch,
                                              Probes),
                     ![w].pc = "next"]
    /\ UNCHANGED <<session_rest, _file_size_cache, content_data, pc, caller, probed,
                   video_files, futures, content_types, resolution_stats,
                   SHUTDOWN_REQUESTED, exit_code>>

\* _process_batch: the head of the loop over the results, up to the load of
\* the item in self.content_types[type] += 1
NextResult(w) ==
    /\ workers[w].pc = "next"
    /\ IF workers[w].i > Len(workers[w].results)
       THEN Finished(w)
       ELSE /\ LET metadata == probed[workers[w].results[workers[w].i]]
               IN  workers' = [workers EXCEPT
                                 ![w].metadata = metadata,
                                 ![w].read = content_types[metadata.type],
                                 ![w].pc = "write_type"]
            /\ UNCHANGED futures
    /\ UNCHANGED <<session_rest, _file_size_cache, content_data, pc, caller, probed,
                   video_files, content_types, resolution_stats,
                   SHUTDOWN_REQUESTED, exit_code>>

\* add_file_metadata in a worker: self.content_data[content_signature] ...
GetBucket(w) ==
    /\ workers[w].pc = "bucket"
    /\ content_data' =
           GetOrCreate(content_data,
                       _create_content_signature(workers[w].metadata,
                                                 workers[w].metadata.path))
    /\ workers' = [workers EXCEPT ![w].pc = "append"]
    /\ UNCHANGED <<session_rest, _file_size_cache, pc, caller, probed,
                   video_files, futures, content_types, resolution_stats,
                   SHUTDOWN_REQUESTED, exit_code>>

\* ... .append(record)
AppendRecord(w) ==
    /\ workers[w].pc = "append"
    /\ content_data' = AddRecord(content_data, workers[w].metadata)
    /\ workers' = [workers EXCEPT ![w].metadata = NoFile,
                                  ![w].i = @ + 1,
                                  ![w].pc = "next"]
    /\ UNCHANGED <<session_rest, _file_size_cache, pc, caller, probed,
                   video_files, futures, content_types, resolution_stats,
                   SHUTDOWN_REQUESTED, exit_code>>

\* as AllYielded, but one future is enough
AnyYielded == \E f \in DOMAIN futures : futures[f].yielded

\* as_completed has yielded every future
AllYielded == \A f \in DOMAIN futures : futures[f].yielded

\* as_completed yields a finished future: main breaks when the flag is set
\* and else adds the results; scan_video_files only takes the result
AsCompleted(f) ==
    /\ pc = "collecting"
    /\ futures[f].state = "finished"
    /\ ~futures[f].yielded
    /\ IF caller = "main" /\ SHUTDOWN_REQUESTED
       THEN /\ pc' = "joining"
            /\ UNCHANGED <<futures, content_data>>
       ELSE /\ futures' = [futures EXCEPT ![f].yielded = TRUE]
            /\ content_data' = IF caller = "main"
                               THEN AddRecords(content_data, futures[f].results)
                               ELSE content_data
            /\ pc' = pc
    /\ UNCHANGED <<session_rest, _file_size_cache, caller, probed,
                   video_files,
                   workers, content_types, resolution_stats,
                   SHUTDOWN_REQUESTED, exit_code>>

\* the loop over as_completed ends
EndCollecting ==
    /\ pc = "collecting"
    /\ AllYielded
    /\ pc' = "joining"
    /\ UNCHANGED <<session_rest, _file_size_cache, content_data, scan_vars>>

\* every task has run and every thread of the pool has stopped
Joined ==
    /\ \A f \in DOMAIN futures : futures[f].state = "finished"
    /\ \A w \in DOMAIN workers : workers[w].pc = "idle"

\* the with block of the executor ends when every task has run and every
\* thread has stopped; main then returns 0 if the flag is set
ExecutorShutdown ==
    /\ pc = "joining"
    /\ Joined
    /\ IF caller = "main" /\ SHUTDOWN_REQUESTED
       THEN pc' = "exited" /\ exit_code' = 0
       ELSE pc' = "scanned" /\ exit_code' = exit_code
    /\ UNCHANGED <<session_rest, _file_size_cache, content_data, caller, probed,
                   video_files, futures, workers, content_types,
                   resolution_stats, SHUTDOWN_REQUESTED>>

\* SIGINT or SIGTERM while main scans: the first sets the flag, the second
\* calls sys.exit(1); the SystemExit it raises in the main thread leaves the
\* with block of the executor, which waits for the tasks and the threads
signal_handler ==
    /\ caller = "main"
    /\ pc \in {"submitting", "submit", "collecting", "joining"}
    /\ IF ~SHUTDOWN_REQUESTED
       THEN /\ SHUTDOWN_REQUESTED' = TRUE
            /\ UNCHANGED <<pc, exit_code>>
       ELSE /\ pc' = IF Joined THEN "exited" ELSE "forced"
            /\ exit_code' = IF Joined THEN 1 ELSE exit_code
            /\ UNCHANGED SHUTDOWN_REQUESTED
    /\ UNCHANGED <<session_rest, _file_size_cache, content_data, caller, probed,
                   video_files, futures, workers, content_types,
                   resolution_stats>>

\* the SystemExit leaves main once the executor has shut down: the process
\* ends with the code given to sys.exit
ForcedExit ==
    /\ pc = "forced"
    /\ Joined
    /\ pc' = "exited"
    /\ exit_code' = 1
    /\ UNCHANGED <<session_rest, _file_size_cache, content_data, caller, probed,
                   video_files, futures, workers, content_types,
                   resolution_stats, SHUTDOWN_REQUESTED>>

NextScan ==
    \/ FindVideoFiles
    \/ NextBatch
    \/ SubmitBatch
    \/ \E f \in DOMAIN futures : AsCompleted(f)
    \/ EndCollecting
    \/ ExecutorShutdown
    \/ FindDuplicates
    \/ signal_handler
    \/ ForcedExit
    \/ \E w \in DOMAIN workers : StartBatch(w)
    \/ \E w \in DOMAIN workers : NextFile(w)
    \/ \E w \in DOMAIN workers : ProcessSingleFile(w)
    \/ \E w \in DOMAIN workers : WriteContentType(w)
    \/ \E w \in DOMAIN workers : ReadResolutionStats(w)
    \/ \E w \in DOMAIN workers : WriteResolutionStats(w)
    \/ \E w \in DOMAIN workers : BatchProcessFiles(w)
    \/ \E w \in DOMAIN workers : NextResult(w)
    \/ \E w \in DOMAIN workers : GetBucket(w)
    \/ \E w \in DOMAIN workers : AppendRecord(w)

SpecScan == InitScan /\ [][NextScan]_vars

(***************************************************************************)
(* find_duplicates on a tree with two pairs of copies of one title         *)
(***************************************************************************)
\* the first four files of the third tree: two named ...1080p, two ...720p
LabelPaths == {31, 32, 33, 34}

InitLabels ==
    /\ _clean_filename_cache = CleanedNames(3)
    /\ media \in [LabelPaths -> Variants]
    /\ dry_run = FALSE
    /\ output_dir = FALSE
    /\ rename_replaces = TRUE
    /\ min_similarity = DefaultSimilarity
    /\ Constructed
    /\ NothingCalled

NextLabels ==
    \/ Scan
    \/ FindDuplicates

SpecLabels == InitLabels /\ [][NextLabels]_vars

(***************************************************************************)
(* _get_file_size while the files of the tree change                       *)
(***************************************************************************)
\* how often the files of the tree are rewritten during a session
MaxRewrites == 1

\* the files of the tree: two encodings of different sizes
SizedKinds == {k \in Variants : k.bitrate_value = 8}

InitSizes ==
    /\ _clean_filename_cache = CleanedNames(2)
    /\ media \in [PathsOf(2) -> SizedKinds]
    /\ dry_run = FALSE
    /\ output_dir = FALSE
    /\ rename_replaces = TRUE
    /\ min_similarity = DefaultSimilarity
    /\ Constructed
    /\ NothingCalled

\* another program rewrites a file of the tree, which grows by one unit
FileRewritten(p) ==
    /\ p \in disk
    /\ rewrites < MaxRewrites
    /\ rewrites' = rewrites + 1
    /\ media' = [media EXCEPT ![p].size = @ + 1]
    /\ UNCHANGED <<disk, outdir, rename_replaces, dry_run, output_dir,
                   _file_size_cache, content_data, duplicates,
                   selected_for_deletion, results, pc, last_op, examined,
                   replaced, submitted, min_similarity, bucket, result_groups,
                   _clean_filename_cache, score_vars, size_path, size_read,
                   scan_vars>>

\* a call of _get_file_size: the value returned, and the cache it leaves
GetFileSize(file_path) ==
    /\ file_path \in DOMAIN media
    /\ size_path' = file_path
    /\ size_read' = _get_file_size(_file_size_cache, file_path)
    /\ _file_size_cache' = CacheAfter(_file_size_cache, {file_path})
    /\ UNCHANGED <<media, disk, outdir, rename_replaces, dry_run, output_dir,
                   content_data, duplicates,
                   selected_for_deletion, results, pc, last_op, examined,
                   replaced, submitted, min_similarity, bucket, result_groups,
                   _clean_filename_cache, score_vars, rewrites,
                   scan_vars>>

NextSizes ==
    \/ Scan
    \/ FindDuplicates
    \/ \E p \in AllPaths : FileRewritten(p)
    \/ \E p \in AllPaths : GetFileSize(p)

SpecSizes == InitSizes /\ [][NextSizes]_vars

\* C21 as stated: for every record with non-negative height, bit rate and
\* frame rate, unknown fields included, _calculate_quality_score returns a
\* value from 22 to 100.
C21_ScoreFrom22To100 ==
    pc = "scored" => quality_score \in 22..100

\* C21 as amended: for every such record _calculate_quality_score returns a
\* value from 12 to 100.
C21_ScoreFrom12To100 ==
    pc = "scored" => quality_score \in 12..100

\* the score of a record without height, bit rate, frame rate and with a
\* codec that is none of those the score knows
C21_Witness ==
    /\ pc = "scored"
    /\ scored_file = NoFile
    /\ quality_score = 12

\* the sizes recorded in a list of result entries, added up
RECURSIVE SumOfEntries(_)
SumOfEntries(entries) ==
    IF entries = <<>> THEN 0
    ELSE Head(entries).size + SumOfEntries(Tail(entries))

\* C22 as stated: without dry_run the size of a file that failed is added to
\* total_freed as well, so that total_freed is the sum of the sizes of all
\* submitted paths.
C22_FreedCountsEverySubmitted ==
    (pc = "executed" /\ ~dry_run) =>
        results.total_freed = SumOfSizes(submitted)

\* C22 as amended: without dry_run the size of a file that failed is not
\* added to total_freed: total_freed is the sum of the sizes recorded in
\* `deleted', which are the cached sizes of the paths removed or moved.
C22_FreedCountsDeletedOnly ==
    (pc = "executed" /\ ~dry_run) =>
        /\ results.total_freed = SumOfEntries(results.deleted)
        /\ results.total_freed =
              SumOfSizes({results.deleted[i].path : i \in DOMAIN results.deleted})

C22_Witness ==
    /\ pc = "executed"
    /\ ~dry_run
    /\ Len(results.failed) >= 1
    /\ Len(results.deleted) >= 1
    /\ results.total_freed > 0
    /\ results.total_freed < SumOfSizes(submitted)

\* C23: whenever _get_file_size is called, after any scans, grouping passes
\* and changes to the files, it returns the size the file has on disk at that
\* moment: a cached size that has gone stale is refreshed.
C23_SizeReadIsCurrent ==
    [][\A p \in AllPaths : GetFileSize(p) => size_read' = DiskSize(p)]_vars

\* the buckets of content_data that hold more than one record
LargeBuckets == {i \in DOMAIN content_data : Len(content_data[i].files) > 1}

\* C25: after the grouping pass every bucket of two or more records has an
\* entry of its own in duplicates: there are as many groups as such buckets
\* and every record of such a bucket is a member of some group, also when
\* two buckets get the same group name.
C25_EveryLargeBucketReported ==
    (pc \in {"menu", "done"} /\ last_op = "none" /\ results = EmptyResults) =>
        /\ Len(duplicates) = Cardinality(LargeBuckets)
        /\ \A i \in LargeBuckets :
              PathsIn(content_data[i].files) \subseteq
                  UNION {PathsIn(duplicates[g].files) : g \in DOMAIN duplicates}

\* a step of one of the automatic policies
PolicyRun ==
    \/ \E keep_highest_resolution \in BOOLEAN :
          AutoSelectFiles(keep_highest_resolution)
    \/ SmartSelection

\* some member of the group is not selected for deletion
KeepsOne(files) == \E i \in DOMAIN files : files[i].path \notin selected_for_deletion

\* C26: when an automatic policy (keep best, keep smallest, smart) has run,
\* every reported group of two or more members has a member that is not in
\* selected_for_deletion.
C26_PolicyKeepsOnePerGroup ==
    [][PolicyRun => (\A files \in Groups : Len(files) >= 2 => KeepsOne(files))']_vars

\* smart selection has marked the best file of a group of three and another
\* member, and kept the third
C26_Witness ==
    /\ last_op = "smart"
    /\ pc = "menu"
    /\ \E files \in Groups :
          /\ Len(files) = 3
          /\ files[1].path \in selected_for_deletion
          /\ Cardinality(SelectedOf(files)) = 2

\* C27: in the menu a file is deleted or moved, and the output directory
\* created, only by a step in which the selection is not empty, the user has
\* confirmed the operation and dry_run is off; when the user declines, the
\* filesystem, selected_for_deletion and duplicates stay as they are.
C27_DeletionNeedsConfirmation ==
    [][/\ (disk' # disk \/ outdir' # outdir) =>
            /\ selected_for_deletion # {}
            /\ ~dry_run
            /\ pc = "menu"
            /\ pc' = "executed"
       /\ CancelDeletion =>
            UNCHANGED <<disk, outdir, selected_for_deletion, duplicates>>]_vars

\* a confirmed deletion that removed a file
C27_Witness ==
    /\ pc = "executed"
    /\ ~dry_run
    /\ ~output_dir
    /\ disk # DOMAIN media
    /\ Len(results.deleted) >= 1

\* the files the finished batches returned
Returned == UNION {Range(futures[f].results) : f \in DOMAIN futures}

\* C24: in main the grouping pass starts only when every submitted batch has
\* finished and its results are in content_data: from then on no worker is
\* probing or counting and nothing is left to add.
C24_GroupingAfterScan ==
    (caller = "main" /\ pc \in {"scanned", "menu", "done"}) =>
        /\ \A f \in DOMAIN futures :
              futures[f].state = "finished" /\ futures[f].yielded
        /\ \A w \in DOMAIN workers : workers[w].pc = "idle"
        /\ Returned = RecordPaths

\* the grouping pass has run after a scan in two batches on two threads
C24_Witness ==
    /\ caller = "main"
    /\ pc = "menu"
    /\ Len(futures) = 2
    /\ Len(workers) = 2
    /\ Cardinality(RecordPaths) = 10
    /\ duplicates # <<>>

\* where in content_data the records of the file p are
Holders(p) ==
    {h \in (DOMAIN content_data) \X (1..Cardinality(ScanPaths)) :
        /\ h[2] <= Len(content_data[h[1]].files)
        /\ content_data[h[1]].files[h[2]].path = p}

\* C28: when scan_video_files has returned, whatever the interleaving of its
\* workers was, every file that could be probed is in content_data exactly
\* once, in the bucket of its signature (and no other file is there).
C28_EachProbedFileOnceInItsBucket ==
    (caller = "scan_video_files" /\ pc \in {"scanned", "menu", "done"}) =>
        \A p \in ScanPaths :
            IF Probes(p)
            THEN /\ Cardinality(Holders(p)) = 1
                 /\ \A h \in Holders(p) :
                      content_data[h[1]].key =
                          _create_content_signature(probed[p], p)
            ELSE Holders(p) = {}

\* the scan has returned; the file of the second batch was added to its
\* bucket before the file of the first batch that shares the bucket
C28_Witness ==
    /\ caller = "scan_video_files"
    /\ pc = "scanned"
    /\ \E b \in DOMAIN content_data :
          /\ Len(content_data[b].files) = 2
          /\ content_data[b].files[1].path = 34
          /\ content_data[b].files[2].path = 31

\* the counters of a dict, added up
RECURSIVE SumOfCounters(_)
SumOfCounters(d) ==
    IF DOMAIN d = {} THEN 0
    ELSE LET k == CHOOSE k \in DOMAIN d : TRUE
         IN  d[k] + SumOfCounters([x \in DOMAIN d \ {k} |-> d[x]])

\* C29: after a scan whose workers ran process_single_file (main) or
\* _process_batch (scan_video_files) side by side, the counters of
\* content_types add up to the number of files whose metadata was extracted,
\* and so do the counters of resolution_stats: no increment is lost.
C29_NoIncrementLost ==
    pc \in {"scanned", "menu", "done"} =>
        /\ SumOfCounters(content_types) =
              Cardinality({p \in ScanPaths : Probes(p)})
        /\ SumOfCounters(resolution_stats) =
              Cardinality({p \in ScanPaths : Probes(p)})

\* C30: once a signal has set the flag during the scan, main submits no
\* further batch, no worker goes on to probe another file, and the run ends
\* with exit code 0 without grouping pass, menu or deletion; a second signal
\* ends the process at once with exit code 1.
C30_ShutdownEndsTheRun ==
    [][/\ SHUTDOWN_REQUESTED =>
            /\ ~(pc = "submitting" /\ pc' = "submit")
            /\ \A w \in DOMAIN workers' :
                  workers'[w].pc = "probe" =>
                      w \in DOMAIN workers /\ workers[w].pc = "probe"
            /\ pc' \notin {"scanned", "menu", "done"}
            /\ duplicates' = <<>>
            /\ disk' = DOMAIN media
            /\ (pc = "joining" /\ pc' = "exited" /\ ~signal_handler) =>
                  exit_code' = 0
       /\ (SHUTDOWN_REQUESTED /\ signal_handler) =>
            /\ pc' = "exited"
            /\ exit_code' = 1]_vars

=============================================================================
